---------------------------- MODULE Spec2Model ----------------------------
(***************************************************************************)
(* A model of agentable/jsonpath (RFC 9535 JSONPath for Go): the filter    *)
(* engine of internal/ast, the built-in functions and their regex cache,   *)
(* the slice arithmetic of the top-level evaluator, the lexer, the parser  *)
(* and the canonical string form of a compiled query.                      *)
(*                                                                         *)
(* Go values are tagged records.  A string is a sequence of characters,    *)
(* each character named by a TLA+ string ("a", "LF", "NUL", ...).  A JSON  *)
(* object (map[string]any) is a sequence of members [k, v] with distinct   *)
(* keys; the order of the sequence is the order in which one `range` over  *)
(* the map happens to visit it.  A node list is a Go []any, exactly like a *)
(* JSON array, and is therefore the same kind of record.                   *)
(***************************************************************************)
EXTENDS Integers, Sequences, FiniteSets, TLC

VARIABLES
    current,    \* filter engine: the candidate node under test (@)
    root,       \* filter engine: the document root ($)
    comp,       \* filter engine: the comparison of the filter selector
    result,     \* filter engine: whether Path.Select selected the candidate
    reCache,    \* functions.reCache: pattern string -> compiled regex
    mcall,      \* the last MatchFunc/SearchFunc call: name, args, result
    sarr,       \* slice evaluation: the input array
    sargs,      \* slice evaluation: the ast.SliceArgs of the selector
    sout,       \* slice evaluation: the node list Path.Select returned
    parser,     \* the jsonpath.Parser in use: its opts.functions
    form,       \* the shape of the expression handed to Parser.Parse
    psrc,       \* the expression handed to Parser.Parse
    path,       \* what Parser.Parse returned: a Path or an error
    lexer,      \* a lexer.Lexer: its source and its position
    toks,       \* the tokens the lexer's Scan has returned, in order
    qtext,      \* evaluation: the expression handed to jsonpath.Parse
    qpath,      \* evaluation: the Path it returned, or its error
    qdoc,       \* evaluation: the document handed to the evaluators
    qnodes,     \* evaluation: what Path.Select returned
    located,    \* evaluation: what Path.SelectLocated returned
    subnodes,   \* evaluation: what PathQuery.Select returned
    lbuilt,     \* node lists: the LocatedNodeList as the caller built it
    lnodes,     \* node lists: the list after the calls made on it
    lops,       \* node lists: the calls made on it, in order
    npair,      \* normalized paths: the receiver and the argument of a call
    nout,       \* normalized paths: the call made and what it returned
    reMap,      \* concurrent calls: the sync.Map reCache the goroutines share
    gos,        \* concurrent calls: each goroutine's position in compileIRegexp
    handed,     \* concurrent calls: per pattern, the instances calls have returned
    stored,     \* concurrent calls: the Store calls made on reCache, in order
    requested,  \* concurrent calls: the patterns asked for so far
    spath,      \* concurrent evaluation: the compiled Path the goroutines share
    sdoc,       \* concurrent evaluation: the input document they share
    evals,      \* concurrent evaluation: each goroutine's position in Select
    pheap,      \* path storage: the backing arrays allocated for normalized paths
    pstack,     \* path storage: the calls of appendDescendantLocated under way
    pout,       \* path storage: the located nodes appended to out
    pdoc,       \* path storage: the document under evaluation
    rdoc,       \* path round trip: the document SelectLocated was called on
    rnodes,     \* path round trip: the located nodes it returned
    rback,      \* path round trip: per node, what Parse and Select of its path gave
    rpath,      \* path round trip: the query SelectLocated is called on
    rtrip       \* path round trip: the path of a node, parsed back

filterVars == <<current, root, comp, result>>
matchVars == <<reCache, mcall>>
sliceVars == <<sarr, sargs, sout>>
parseVars == <<parser, form, psrc, path>>
lexVars == <<lexer, toks>>
evalVars == <<qtext, qpath, qdoc, qnodes, located, subnodes>>
listVars == <<lbuilt, lnodes, lops>>
npathVars == <<npair, nout>>
compileVars == <<reMap, gos, handed, stored, requested>>
sharedVars == <<spath, sdoc, evals>>
storageVars == <<pheap, pstack, pout, pdoc>>
namesVars == <<rdoc, rnodes, rback, rpath, rtrip>>
vars == <<current, root, comp, result, reCache, mcall, sarr, sargs, sout,
          parser, form, psrc, path, lexer, toks,
          qtext, qpath, qdoc, qnodes, located, subnodes,
          lbuilt, lnodes, lops, npair, nout,
          reMap, gos, handed, stored, requested,
          spath, sdoc, evals,
          pheap, pstack, pout, pdoc,
          rdoc, rnodes, rback, rpath, rtrip>>

\* what the steps of one part of the model leave alone
besidesFilter ==
    <<matchVars, sliceVars, parseVars, lexVars, evalVars,
      listVars, npathVars, compileVars, sharedVars, storageVars,
      namesVars>>
besidesMatch ==
    <<filterVars, sliceVars, parseVars, lexVars, evalVars,
      listVars, npathVars, compileVars, sharedVars, storageVars,
      namesVars>>
besidesSlice ==
    <<filterVars, matchVars, parseVars, lexVars, evalVars,
      listVars, npathVars, compileVars, sharedVars, storageVars,
      namesVars>>
besidesParse ==
    <<filterVars, matchVars, sliceVars, lexVars, evalVars,
      listVars, npathVars, compileVars, sharedVars, storageVars,
      namesVars>>
besidesLex ==
    <<filterVars, matchVars, sliceVars, parseVars, evalVars,
      listVars, npathVars, compileVars, sharedVars, storageVars,
      namesVars>>
besidesEval ==
    <<filterVars, matchVars, sliceVars, parseVars, lexVars,
      listVars, npathVars, compileVars, sharedVars, storageVars,
      namesVars>>
besidesList ==
    <<filterVars, matchVars, sliceVars, parseVars, lexVars,
      evalVars, npathVars, compileVars, sharedVars, storageVars,
      namesVars>>
besidesNPath ==
    <<filterVars, matchVars, sliceVars, parseVars, lexVars,
      evalVars, listVars, compileVars, sharedVars, storageVars,
      namesVars>>
besidesCompile ==
    <<filterVars, matchVars, sliceVars, parseVars, lexVars,
      evalVars, listVars, npathVars, sharedVars, storageVars,
      namesVars>>
besidesShared ==
    <<filterVars, matchVars, sliceVars, parseVars, lexVars,
      evalVars, listVars, npathVars, compileVars, storageVars,
      namesVars>>
besidesStorage ==
    <<filterVars, matchVars, sliceVars, parseVars, lexVars,
      evalVars, listVars, npathVars, compileVars, sharedVars,
      namesVars>>
besidesNames ==
    <<filterVars, matchVars, sliceVars, parseVars, lexVars,
      evalVars, listVars, npathVars, compileVars, sharedVars,
      storageVars>>

---------------------------------------------------------------------------
(* Go values *)

\* The functions of the packages call one another by name: Call(f, a) is the
\* Go call of the function named f with the arguments a.  It is defined after
\* the functions it names.
RECURSIVE Call(_, _)

Nil == [t |-> "nil"]                \* Go nil: a JSON null of the document
Nothing == [t |-> "nothing"]        \* ast.nothing{}
JSONNull == [t |-> "jsonNull"]      \* ast.jsonNull{}: the literal null
Bool(b) == [t |-> "bool", b |-> b]
Float64(n) == [t |-> "num", k |-> "float64", n |-> n]
Int64(n) == [t |-> "num", k |-> "int64", n |-> n]
GoInt(n) == [t |-> "num", k |-> "int", n |-> n]
Str(s) == [t |-> "str", s |-> s]
Arr(a) == [t |-> "arr", a |-> a]
Obj(m) == [t |-> "obj", m |-> m]

IsNil(v) == v.t = "nil"
IsStr(v) == v.t = "str"
IsArr(v) == v.t = "arr"
IsObj(v) == v.t = "obj"

\* m[key] of a map[string]any: presence and value
HasKey(m, key) == \E i \in 1..Len(m) : m[i].k = key
Get(m, key) == m[CHOOSE i \in 1..Len(m) : m[i].k = key].v

\* the values of a map in the order of one iteration over it
MapValues(m) == [i \in 1..Len(m) |-> m[i].v]

\* the code point of a character
CharCode(c) ==
    CASE c = "EOF" -> -1
      [] c = "NUL" -> 0
      [] c = "BEL" -> 7
      [] c = "BS" -> 8
      [] c = "HT" -> 9
      [] c = "LF" -> 10
      [] c = "VT" -> 11
      [] c = "FF" -> 12
      [] c = "CR" -> 13
      [] c = "DLE" -> 16
      [] c = "US" -> 31
      [] c = " " -> 32
      [] c = "!" -> 33
      [] c = "\"" -> 34
      [] c = "$" -> 36
      [] c = "&" -> 38
      [] c = "'" -> 39
      [] c = "(" -> 40
      [] c = ")" -> 41
      [] c = "*" -> 42
      [] c = "+" -> 43
      [] c = "," -> 44
      [] c = "-" -> 45
      [] c = "." -> 46
      [] c = "/" -> 47
      [] c = "0" -> 48
      [] c = "1" -> 49
      [] c = "2" -> 50
      [] c = "3" -> 51
      [] c = "4" -> 52
      [] c = "5" -> 53
      [] c = "6" -> 54
      [] c = "7" -> 55
      [] c = "8" -> 56
      [] c = "9" -> 57
      [] c = ":" -> 58
      [] c = "<" -> 60
      [] c = "=" -> 61
      [] c = ">" -> 62
      [] c = "?" -> 63
      [] c = "@" -> 64
      [] c = "A" -> 65
      [] c = "E" -> 69
      [] c = "U" -> 85
      [] c = "[" -> 91
      [] c = "\\" -> 92
      [] c = "]" -> 93
      [] c = "_" -> 95
      [] c = "a" -> 97
      [] c = "b" -> 98
      [] c = "c" -> 99
      [] c = "d" -> 100
      [] c = "e" -> 101
      [] c = "f" -> 102
      [] c = "g" -> 103
      [] c = "h" -> 104
      [] c = "l" -> 108
      [] c = "m" -> 109
      [] c = "n" -> 110
      [] c = "o" -> 111
      [] c = "r" -> 114
      [] c = "s" -> 115
      [] c = "t" -> 116
      [] c = "u" -> 117
      [] c = "v" -> 118
      [] c = "x" -> 120
      [] c = "z" -> 122
      [] c = "|" -> 124
      [] c = "~" -> 126
      [] c = "DEL" -> 127
      [] c = "e-acute" -> 233
      [] OTHER -> 65533

\* the characters of the table, and the character of a code point
Chars ==
    {"NUL", "BEL", "BS", "HT", "LF", "VT", "FF", "CR", "DLE", "US", " ", "!", "\"", "$", "&",
     "'", "(", ")", "*", "+", ",", "-", ".", "/", "0", "1", "2", "3", "4", "5",
     "6", "7", "8", "9", ":", "<", "=", ">", "?", "@", "A", "E", "U", "[", "\\",
     "]", "_", "a", "b", "c", "d", "e", "f", "g", "h", "l", "m", "n", "o", "r",
     "s", "t", "u", "v", "x", "z", "|", "~", "DEL", "e-acute"}

CodeChar(n) ==
    IF \E c \in Chars : CharCode(c) = n
    THEN CHOOSE c \in Chars : CharCode(c) = n
    ELSE "U+FFFD"

\* Go's `sa < sb` on strings: bytewise, which on UTF-8 is code point order
RECURSIVE StrLess(_, _)
StrLess(sa, sb) ==
    IF sb = <<>> THEN FALSE
    ELSE IF sa = <<>> THEN TRUE
    ELSE IF CharCode(Head(sa)) # CharCode(Head(sb))
         THEN CharCode(Head(sa)) < CharCode(Head(sb))
    ELSE StrLess(Tail(sa), Tail(sb))

\* the concatenation of a sequence of sequences
RECURSIVE Flatten(_)
Flatten(ss) == IF ss = <<>> THEN <<>> ELSE Head(ss) \o Flatten(Tail(ss))

---------------------------------------------------------------------------
(* regexp/syntax and regexp, for the patterns the model draws: literal      *)
(* characters, ".", "|", the postfix "*", and the anchors \A and \z that    *)
(* MatchFunc.Call writes around the pattern.                                *)

\* A parsed regex is a sequence of alternatives, each a sequence of items
\* [op, c, star]: op is "lit" (the character c), "any" (OpAnyChar), "bot"
\* (\A, OpBeginText) or "eot" (\z, OpEndText); star marks OpStar of the item.
ReItem(op, c) == [op |-> op, c |-> c, star |-> FALSE]

\* syntax.Parse(pattern, syntax.Perl|syntax.DotNL), left to right.  alts are
\* the finished alternatives, cur the one being read, rep whether the item on
\* top of the stack is already repeated.  A "*" with an empty stack or right
\* after "|" is ErrMissingRepeatArgument, a second "*" is ErrInvalidRepeatOp,
\* a "\" not followed by A or z is (for the characters drawn here) an error.
RECURSIVE parseSyntax(_, _, _, _, _)
parseSyntax(p, i, alts, cur, rep) ==
    IF i > Len(p) THEN [err |-> FALSE, alts |-> Append(alts, cur)]
    ELSE IF p[i] = "|" THEN parseSyntax(p, i + 1, Append(alts, cur), <<>>, FALSE)
    ELSE IF p[i] = "*" THEN
        IF cur = <<>> \/ rep THEN [err |-> TRUE, alts |-> <<>>]
        ELSE parseSyntax(p, i + 1, alts,
                 [cur EXCEPT ![Len(cur)].star = TRUE], TRUE)
    ELSE IF p[i] = "\\" THEN
        IF i + 1 <= Len(p) /\ p[i + 1] = "A"
        THEN parseSyntax(p, i + 2, alts, Append(cur, ReItem("bot", "")), FALSE)
        ELSE IF i + 1 <= Len(p) /\ p[i + 1] = "z"
        THEN parseSyntax(p, i + 2, alts, Append(cur, ReItem("eot", "")), FALSE)
        ELSE [err |-> TRUE, alts |-> <<>>]
    ELSE IF p[i] = "." THEN
        parseSyntax(p, i + 1, alts, Append(cur, ReItem("any", "")), FALSE)
    ELSE parseSyntax(p, i + 1, alts, Append(cur, ReItem("lit", p[i])), FALSE)

\* replaceDot: every OpAnyChar becomes the class [^\n\r]
replaceDot(alts) ==
    [a \in 1..Len(alts) |->
        [k \in 1..Len(alts[a]) |->
            IF alts[a][k].op = "any"
            THEN [alts[a][k] EXCEPT !.op = "notcrlf"]
            ELSE alts[a][k]]]

\* compileIRegexpUncached: the compiled regex, or the error of syntax.Parse
compileIRegexpUncached(pattern) ==
    LET parsed == parseSyntax(pattern, 1, <<>>, <<>>, FALSE)
    IN IF parsed.err THEN [err |-> TRUE, re |-> Nil]
       ELSE [err |-> FALSE,
             re |-> [t |-> "regexp", src |-> pattern, alts |-> replaceDot(parsed.alts)]]

\* whether one item matches the single character c
ItemTakes(item, c) ==
    CASE item.op = "lit" -> item.c = c
      [] item.op = "any" -> TRUE
      [] item.op = "notcrlf" -> c \notin {"LF", "CR"}
      [] OTHER -> FALSE

\* whether items[k..] match exactly s[i+1..j] (i and j are offsets 0..Len(s))
RECURSIVE ItemsMatch(_, _, _, _, _)
ItemsMatch(items, k, s, i, j) ==
    IF k > Len(items) THEN i = j
    ELSE LET it == items[k] IN
        IF it.op \in {"bot", "eot"} /\ it.star THEN ItemsMatch(items, k + 1, s, i, j)
        ELSE IF it.op = "bot" THEN i = 0 /\ ItemsMatch(items, k + 1, s, i, j)
        ELSE IF it.op = "eot" THEN i = Len(s) /\ ItemsMatch(items, k + 1, s, i, j)
        ELSE IF it.star THEN
            \/ ItemsMatch(items, k + 1, s, i, j)
            \/ (i < j /\ ItemTakes(it, s[i + 1]) /\ ItemsMatch(items, k, s, i + 1, j))
        ELSE i < j /\ ItemTakes(it, s[i + 1]) /\ ItemsMatch(items, k + 1, s, i + 1, j)

\* (*regexp.Regexp).MatchString: some substring of s matches some alternative
MatchString(re, s) ==
    \E a \in 1..Len(re.alts) : \E i \in 0..Len(s) : \E j \in i..Len(s) :
        ItemsMatch(re.alts[a], 1, s, i, j)

\* sync.Map.Store
Store(cache, key, value) ==
    [x \in (DOMAIN cache) \cup {key} |-> IF x = key THEN value ELSE cache[x]]

\* compileIRegexp storing the nil of an invalid pattern in the cache too
compileIRegexp_StoreInvalid(cache, pattern) ==
    IF pattern \in DOMAIN cache THEN [re |-> cache[pattern], cache |-> cache]
    ELSE LET c == compileIRegexpUncached(pattern)
         IN [re |-> c.re, cache |-> Store(cache, pattern, c.re)]

\* compileIRegexp: the regex returned (Nil for an invalid pattern) and the
\* cache the call leaves behind
compileIRegexp(cache, pattern) ==
    IF pattern \in DOMAIN cache THEN [re |-> cache[pattern], cache |-> cache]
    ELSE LET c == compileIRegexpUncached(pattern)
         IN IF c.err THEN [re |-> Nil, cache |-> cache]
            ELSE [re |-> c.re, cache |-> Store(cache, pattern, c.re)]

---------------------------------------------------------------------------
(* package functions: the five built-in functions *)

LengthFunc_Call(args) ==
    IF Len(args) = 0 \/ IsNil(args[1]) THEN Nil
    ELSE CASE IsStr(args[1]) -> GoInt(Len(args[1].s))
           [] IsArr(args[1]) -> GoInt(Len(args[1].a))
           [] IsObj(args[1]) -> GoInt(Len(args[1].m))
           [] OTHER -> Nil

CountFunc_Call(args) ==
    IF Len(args) = 0 THEN GoInt(0)
    ELSE IF IsArr(args[1]) THEN GoInt(Len(args[1].a))
    ELSE GoInt(0)

\* the pattern MatchFunc.Call hands to compileIRegexp
MatchPattern(pattern) == <<"\\", "A">> \o pattern \o <<"\\", "z">>

\* MatchFunc.Call: the value returned and the cache left behind
MatchFunc_Call(cache, args) ==
    IF Len(args) < 2 THEN [ret |-> Bool(FALSE), cache |-> cache]
    ELSE IF ~IsStr(args[1]) \/ ~IsStr(args[2]) THEN [ret |-> Bool(FALSE), cache |-> cache]
    ELSE LET c == compileIRegexp(cache, MatchPattern(args[2].s))
         IN IF IsNil(c.re) THEN [ret |-> Bool(FALSE), cache |-> c.cache]
            ELSE [ret |-> Bool(MatchString(c.re, args[1].s)), cache |-> c.cache]

\* SearchFunc.Call: the value returned and the cache left behind
SearchFunc_Call(cache, args) ==
    IF Len(args) < 2 THEN [ret |-> Bool(FALSE), cache |-> cache]
    ELSE IF ~IsStr(args[1]) \/ ~IsStr(args[2]) THEN [ret |-> Bool(FALSE), cache |-> cache]
    ELSE LET c == compileIRegexp(cache, args[2].s)
         IN IF IsNil(c.re) THEN [ret |-> Bool(FALSE), cache |-> c.cache]
            ELSE [ret |-> Bool(MatchString(c.re, args[1].s)), cache |-> c.cache]

ValueFunc_Call(args) ==
    IF Len(args) = 0 \/ IsNil(args[1]) THEN Nil
    ELSE IF ~IsArr(args[1]) \/ Len(args[1].a) # 1 THEN Nil
    ELSE args[1].a[1]

---------------------------------------------------------------------------
(* package ast: selectors, segments, queries *)

NameSelector(name) == [Kind |-> "Name", Name |-> name]
IndexSelector(idx) == [Kind |-> "Index", Index |-> idx]
SliceSelector(args) == [Kind |-> "Slice", Slice |-> args]
WildcardSelector == [Kind |-> "Wildcard"]
FilterSelector(e) == [Kind |-> "Filter", Filter |-> e]

Child(sel) == [selectors |-> sel, descendant |-> FALSE]
Descendant(sel) == [selectors |-> sel, descendant |-> TRUE]
NewPathQuery(isRoot, segments) == [root |-> isRoot, segments |-> segments]

\* Selector.IsSingular counting a wildcard selector as singular too
Selector_IsSingular_OrWildcard(s) == s.Kind \in {"Name", "Index", "Wildcard"}

Selector_IsSingular(s) == s.Kind = "Name" \/ s.Kind = "Index"

Segment_IsSingular(s) ==
    IF s.descendant \/ Len(s.selectors) # 1 THEN FALSE
    ELSE Selector_IsSingular(s.selectors[1])

PathQuery_IsSingular(q) ==
    \A i \in 1..Len(q.segments) :
        ~q.segments[i].descendant /\ Segment_IsSingular(q.segments[i])

\* arr[i] of a Go slice (i counts from 0); reading outside it panics
Panic == [t |-> "panic"]
At(arr, i) == IF i >= 0 /\ i < Len(arr) THEN arr[i + 1] ELSE Panic

\* for i := start; i < end; i += step { out = append(out, arr[i]) }
RECURSIVE SliceUp(_, _, _, _)
SliceUp(arr, i, end, step) ==
    IF i < end THEN <<At(arr, i)>> \o SliceUp(arr, i + step, end, step) ELSE <<>>

\* for i := start; i > end; i += step { out = append(out, arr[i]) }
RECURSIVE SliceDown(_, _, _, _)
SliceDown(arr, i, end, step) ==
    IF i > end THEN <<At(arr, i)>> \o SliceDown(arr, i + step, end, step) ELSE <<>>

\* the bound left as it is, not clamped to the array
Clamp_Not(x, lo, hi) == x

Clamp(x, lo, hi) == IF x < lo THEN lo ELSE IF x > hi THEN hi ELSE x

\* Selector.applySlice: the nodes appended to out
Selector_applySlice(s, arr) ==
    LET length == Len(arr)
        step == IF s.Slice.HasStep THEN s.Slice.Step ELSE 1
        start0 == IF s.Slice.HasStart THEN s.Slice.Start
                  ELSE IF step > 0 THEN 0 ELSE length - 1
        end0 == IF s.Slice.HasEnd THEN s.Slice.End
                ELSE IF step > 0 THEN length ELSE -length - 1
        start1 == IF start0 < 0 THEN start0 + length ELSE start0
        end1 == IF end0 < 0 THEN end0 + length ELSE end0
    IN IF length = 0 \/ step = 0 THEN <<>>
       ELSE IF step > 0
            THEN SliceUp(arr, Clamp(start1, 0, length), Clamp(end1, 0, length), step)
            ELSE SliceDown(arr, Clamp(start1, 0, length - 1),
                                Clamp(end1, -1, length - 1), step)

RECURSIVE equalTo(_, _)

\* the elements of vals for which the filter holds, in order
KeepMatching(f, vals, rt) ==
    IF vals = <<>> THEN <<>>
    ELSE (IF Call("FilterExpr_Eval", <<f, Head(vals), rt>>) THEN <<Head(vals)>> ELSE <<>>)
         \o Call("KeepMatching", <<f, Tail(vals), rt>>)

\* Selector.Apply handing the node it is applied to, as the root, to the filter
Selector_Apply_RootIsNode(s, node, rt) ==
    CASE s.Kind = "Name" ->
           IF IsObj(node) /\ HasKey(node.m, s.Name) THEN <<Get(node.m, s.Name)>> ELSE <<>>
      [] s.Kind = "Index" ->
           IF IsArr(node)
           THEN LET idx == IF s.Index < 0 THEN s.Index + Len(node.a) ELSE s.Index
                IN IF idx >= 0 /\ idx < Len(node.a) THEN <<At(node.a, idx)>> ELSE <<>>
           ELSE <<>>
      [] s.Kind = "Slice" ->
           IF IsArr(node) THEN Selector_applySlice(s, node.a) ELSE <<>>
      [] s.Kind = "Wildcard" ->
           IF IsObj(node) THEN MapValues(node.m)
           ELSE IF IsArr(node) THEN node.a ELSE <<>>
      [] s.Kind = "Filter" ->
           IF IsObj(node) THEN Call("KeepMatching", <<s.Filter, MapValues(node.m), node>>)
           ELSE IF IsArr(node) THEN Call("KeepMatching", <<s.Filter, node.a, node>>) ELSE <<>>

\* Selector.Apply: the nodes appended to out
Selector_Apply(s, node, rt) ==
    CASE s.Kind = "Name" ->
           IF IsObj(node) /\ HasKey(node.m, s.Name) THEN <<Get(node.m, s.Name)>> ELSE <<>>
      [] s.Kind = "Index" ->
           IF IsArr(node)
           THEN LET idx == IF s.Index < 0 THEN s.Index + Len(node.a) ELSE s.Index
                IN IF idx >= 0 /\ idx < Len(node.a) THEN <<At(node.a, idx)>> ELSE <<>>
           ELSE <<>>
      [] s.Kind = "Slice" ->
           IF IsArr(node) THEN Selector_applySlice(s, node.a) ELSE <<>>
      [] s.Kind = "Wildcard" ->
           IF IsObj(node) THEN MapValues(node.m)
           ELSE IF IsArr(node) THEN node.a ELSE <<>>
      [] s.Kind = "Filter" ->
           IF IsObj(node) THEN Call("KeepMatching", <<s.Filter, MapValues(node.m), rt>>)
           ELSE IF IsArr(node) THEN Call("KeepMatching", <<s.Filter, node.a, rt>>) ELSE <<>>

\* ast.appendSelectors
ast_appendSelectors(selectors, node, rt) ==
    IF selectors = <<>> THEN <<>>
    ELSE Call("Selector_Apply", <<Head(selectors), node, rt>>)
         \o Call("ast_appendSelectors", <<Tail(selectors), node, rt>>)

\* the recursion of ast.appendDescendant into the children, in order
ast_descendInto(selectors, children, rt) ==
    IF children = <<>> THEN <<>>
    ELSE Call("ast_appendDescendant", <<selectors, Head(children), rt>>)
         \o Call("ast_descendInto", <<selectors, Tail(children), rt>>)

\* ast.appendDescendant
ast_appendDescendant(selectors, node, rt) ==
    Call("ast_appendSelectors", <<selectors, node, rt>>)
    \o (IF IsObj(node) THEN Call("ast_descendInto", <<selectors, MapValues(node.m), rt>>)
        ELSE IF IsArr(node) THEN Call("ast_descendInto", <<selectors, node.a, rt>>)
        ELSE <<>>)

\* Segment.Apply
Segment_Apply(seg, nodes, rt) ==
    IF nodes = <<>> THEN <<>>
    ELSE (IF seg.descendant
          THEN Call("ast_appendDescendant", <<seg.selectors, Head(nodes), rt>>)
          ELSE Call("ast_appendSelectors", <<seg.selectors, Head(nodes), rt>>))
         \o Call("Segment_Apply", <<seg, Tail(nodes), rt>>)

applySegmentsFrom(segments, i, nodes, rt) ==
    IF i > Len(segments) THEN nodes
    ELSE Call("applySegmentsFrom", <<segments, i + 1, Call("Segment_Apply", <<segments[i], nodes, rt>>), rt>>)

\* PathQuery.Select
PathQuery_Select(q, cur, rt) ==
    Call("applySegmentsFrom", <<q.segments, 1, <<IF q.root THEN rt ELSE cur>>, rt>>)

---------------------------------------------------------------------------
(* package ast: the filter engine *)

\* a function argument expression held by a FuncExpr
QueryArgExpr(q) == [a |-> "query", q |-> q]
FuncArgExpr(fe) == [a |-> "func", f |-> fe]
LiteralArgExpr(v) == [a |-> "lit", v |-> v]

NewFuncExpr(fn, argTypes, args) ==
    [name |-> fn.name, fn |-> fn, args |-> args, argTypes |-> argTypes]

\* the operands of a comparison
LiteralValue(v) == [c |-> "Literal", Val |-> v]
QueryValue(q) == [c |-> "Query", Query |-> q]
FuncValue(fe) == [c |-> "Func", Func |-> fe]

\* the basic expressions
ExistExpr(q) == [e |-> "Exist", Query |-> q]
NonExistExpr(q) == [e |-> "NonExist", Query |-> q]
ParenExpr(lo) == [e |-> "Paren", Expr |-> lo]
NotParenExpr(lo) == [e |-> "NotParen", Expr |-> lo]
NegFuncExpr(fe) == [e |-> "NegFunc", Func |-> fe]
FuncTest(fe) == [e |-> "Func", Func |-> fe]
CompExpr(l, op, r) == [e |-> "Comp", Left |-> l, Op |-> op, Right |-> r]

CompOps == {"==", "!=", "<", "<=", ">", ">="}

isNumeric(v) == v.t = "num"

toFloat64(v) == IF v.t = "num" THEN v.n ELSE 0

sameType(a, b) ==
    IF a = Nothing THEN FALSE
    ELSE IF b = Nothing THEN FALSE
    ELSE LET aIsNull == a = JSONNull \/ a = Nil
             bIsNull == b = JSONNull \/ b = Nil
         IN IF aIsNull \/ bIsNull THEN aIsNull /\ bIsNull
            ELSE IF isNumeric(a) /\ isNumeric(b) THEN TRUE
            ELSE IF a.t = "str" THEN b.t = "str"
            ELSE IF a.t = "bool" THEN b.t = "bool"
            ELSE FALSE

equalTo(a, b) ==
    LET aIsNothing == a = Nothing
        bIsNothing == b = Nothing
        aIsJSONNull == a = JSONNull
        bIsJSONNull == b = JSONNull
        aIsNoValue == aIsNothing \/ (a = Nil /\ ~aIsJSONNull /\ ~bIsJSONNull)
        bIsNoValue == bIsNothing \/ (b = Nil /\ ~aIsJSONNull /\ ~bIsJSONNull)
    IN IF aIsNoValue /\ bIsNoValue THEN TRUE
       ELSE IF aIsNoValue \/ bIsNoValue THEN FALSE
       ELSE IF (aIsJSONNull /\ b = Nil) \/ (a = Nil /\ bIsJSONNull)
               \/ (aIsJSONNull /\ bIsJSONNull) THEN TRUE
       ELSE IF aIsJSONNull \/ bIsJSONNull THEN FALSE
       ELSE IF isNumeric(a) /\ isNumeric(b) THEN toFloat64(a) = toFloat64(b)
       ELSE IF IsArr(a) /\ IsArr(b)
            THEN /\ Len(a.a) = Len(b.a)
                 /\ \A i \in 1..Len(a.a) : equalTo(a.a[i], b.a[i])
       ELSE IF IsObj(a) /\ IsObj(b)
            THEN /\ Len(a.m) = Len(b.m)
                 /\ \A i \in 1..Len(a.m) :
                        HasKey(b.m, a.m[i].k) /\ equalTo(a.m[i].v, Get(b.m, a.m[i].k))
       ELSE IF IsArr(a) \/ IsArr(b) \/ IsObj(a) \/ IsObj(b) THEN FALSE
       ELSE a = b

lessThan(a, b) ==
    IF a = Nil \/ b = Nil THEN FALSE
    ELSE IF isNumeric(a) /\ isNumeric(b) THEN toFloat64(a) < toFloat64(b)
    ELSE IF IsStr(a) /\ IsStr(b) THEN StrLess(a.s, b.s)
    ELSE FALSE

\* Function.Call of the function a FuncExpr resolved to; match and search
\* read the regex cache
Function_Call(fn, args) ==
    CASE fn.impl = "length" -> LengthFunc_Call(args)
      [] fn.impl = "count" -> CountFunc_Call(args)
      [] fn.impl = "value" -> ValueFunc_Call(args)
      [] fn.impl = "match" -> MatchFunc_Call(reCache, args).ret
      [] fn.impl = "search" -> SearchFunc_Call(reCache, args).ret
      [] OTHER -> Nil

\* FuncExpr.Call: one evaluated argument
evalArg(fe, i, cur, rt) ==
    LET arg == fe.args[i] IN
    CASE arg.a = "query" ->
           LET nodes == Call("PathQuery_Select", <<arg.q, cur, rt>>) IN
           IF i <= Len(fe.argTypes) /\ fe.argTypes[i] = "FilterArg" THEN Arr(nodes)
           ELSE IF PathQuery_IsSingular(arg.q)
                THEN (IF Len(nodes) = 1 THEN nodes[1] ELSE Nil)
                ELSE Arr(nodes)
      [] arg.a = "func" -> Call("FuncExpr_Call", <<arg.f, cur, rt>>)
      [] OTHER -> arg.v

FuncExpr_Call(fe, cur, rt) ==
    Function_Call(fe.fn, [i \in 1..Len(fe.args) |-> Call("evalArg", <<fe, i, cur, rt>>)])

FuncExpr_Eval(fe, cur, rt) ==
    IF fe.fn.resultType # "Logical" THEN FALSE
    ELSE LET res == Call("FuncExpr_Call", <<fe, cur, rt>>)
         IN IF res.t = "bool" THEN res.b ELSE FALSE

\* LiteralValue.Value, QueryValue.Value, FuncValue.Value
CompValue_Value(v, cur, rt) ==
    CASE v.c = "Literal" -> v.Val
      [] v.c = "Query" ->
           LET nodes == Call("PathQuery_Select", <<v.Query, cur, rt>>)
           IN IF Len(nodes) # 1 THEN Nothing ELSE nodes[1]
      [] v.c = "Func" -> Call("FuncExpr_Call", <<v.Func, cur, rt>>)

CompExpr_Eval(c, cur, rt) ==
    LET left == Call("CompValue_Value", <<c.Left, cur, rt>>)
        right == Call("CompValue_Value", <<c.Right, cur, rt>>)
    IN CASE c.Op = "==" -> equalTo(left, right)
         [] c.Op = "!=" -> ~equalTo(left, right)
         [] c.Op = "<" -> sameType(left, right) /\ lessThan(left, right)
         [] c.Op = "<=" ->
              sameType(left, right) /\ (lessThan(left, right) \/ equalTo(left, right))
         [] c.Op = ">" ->
              sameType(left, right) /\ ~lessThan(left, right) /\ ~equalTo(left, right)
         [] c.Op = ">=" -> sameType(left, right) /\ ~lessThan(left, right)
         [] OTHER -> FALSE

\* the Eval method of each BasicExpr implementation
BasicExpr_Eval(b, cur, rt) ==
    CASE b.e = "Exist" ->
           IF Len(b.Query.segments) = 0 THEN TRUE
           ELSE Len(Call("PathQuery_Select", <<b.Query, cur, rt>>)) > 0
      [] b.e = "NonExist" ->
           IF Len(b.Query.segments) = 0 THEN FALSE
           ELSE Len(Call("PathQuery_Select", <<b.Query, cur, rt>>)) = 0
      [] b.e = "Paren" -> Call("LogicalOr_Eval", <<b.Expr, cur, rt>>)
      [] b.e = "NotParen" -> ~Call("LogicalOr_Eval", <<b.Expr, cur, rt>>)
      [] b.e = "NegFunc" -> ~Call("FuncExpr_Eval", <<b.Func, cur, rt>>)
      [] b.e = "Func" -> Call("FuncExpr_Eval", <<b.Func, cur, rt>>)
      [] b.e = "Comp" -> Call("CompExpr_Eval", <<b, cur, rt>>)

LogicalAnd_Eval(la, cur, rt) ==
    \A i \in 1..Len(la) : Call("BasicExpr_Eval", <<la[i], cur, rt>>)

LogicalOr_Eval(lo, cur, rt) ==
    \E i \in 1..Len(lo) : Call("LogicalAnd_Eval", <<lo[i], cur, rt>>)

FilterExpr_Eval(f, cur, rt) == Call("LogicalOr_Eval", <<f.Or, cur, rt>>)

---------------------------------------------------------------------------
(* package functions: the built-in functions as Function values *)

\* A Function value: its Name(), its ResultType(), the implementation behind
\* it and the package whose interface its method set satisfies.  A built-in
\* has methods typed with ast.FuncType and ast.ArgType; a function handed to
\* WithFunctions has methods typed with jsonpath.FuncType and jsonpath.ArgType.
LengthFunc ==
    [name |-> <<"l", "e", "n", "g", "t", "h">>, resultType |-> "Value",
     impl |-> "length", iface |-> "ast", arity |-> 1]
CountFunc ==
    [name |-> <<"c", "o", "u", "n", "t">>, resultType |-> "Value",
     impl |-> "count", iface |-> "ast", arity |-> 1]
MatchFunc ==
    [name |-> <<"m", "a", "t", "c", "h">>, resultType |-> "Logical",
     impl |-> "match", iface |-> "ast", arity |-> 2]
SearchFunc ==
    [name |-> <<"s", "e", "a", "r", "c", "h">>, resultType |-> "Logical",
     impl |-> "search", iface |-> "ast", arity |-> 2]
ValueFunc ==
    [name |-> <<"v", "a", "l", "u", "e">>, resultType |-> "Value",
     impl |-> "value", iface |-> "ast", arity |-> 1]

ArgConvertsTo(arg, target) ==
    CASE arg = "Literal" -> target = "Value"
      [] arg = "QueryArg" -> target = "Value" \/ target = "Nodes"
      [] arg = "FilterArg" -> target = "Nodes"
      [] arg = "LogicalArg" -> target = "Logical"
      [] arg = "FunctionArg" -> TRUE
      [] OTHER -> FALSE

\* Validate returns "" for a nil error
LengthFunc_Validate(args) ==
    IF Len(args) # 1 THEN "ErrArgCount"
    ELSE IF ~ArgConvertsTo(args[1], "Value") THEN "ErrArgType"
    ELSE ""

CountFunc_Validate(args) ==
    IF Len(args) # 1 THEN "ErrArgCount"
    ELSE IF ~ArgConvertsTo(args[1], "Nodes") THEN "ErrArgType"
    ELSE ""

ValueFunc_Validate(args) ==
    IF Len(args) # 1 THEN "ErrArgCount"
    ELSE IF ~ArgConvertsTo(args[1], "Nodes") THEN "ErrArgType"
    ELSE ""

validateTwoValueArgs(args) ==
    IF Len(args) # 2 THEN "ErrArgCount"
    ELSE IF \E i \in 1..2 : ~ArgConvertsTo(args[i], "Value") THEN "ErrArgType"
    ELSE ""

\* Function.Validate of a Function value; a function of the caller checks
\* the number of its arguments
Function_Validate(fn, args) ==
    CASE fn.impl = "length" -> LengthFunc_Validate(args)
      [] fn.impl = "count" -> CountFunc_Validate(args)
      [] fn.impl = "value" -> ValueFunc_Validate(args)
      [] fn.impl = "match" -> validateTwoValueArgs(args)
      [] fn.impl = "search" -> validateTwoValueArgs(args)
      [] OTHER -> IF Len(args) # fn.arity THEN "custom" ELSE ""

---------------------------------------------------------------------------
(* package jsonpath: the evaluator behind Path.Select *)

normalizeIndex(idx, length) ==
    LET i == IF idx < 0 THEN idx + length ELSE idx
    IN IF i < 0 \/ i >= length THEN -1 ELSE i

\* normalizeSliceBounds with a start below -length raised to 0 whatever the step
normalizeSliceBounds_StartToZero(start, end, step, length) ==
    LET s == IF start < 0
             THEN (IF start + length < 0 THEN 0 ELSE start + length)
             ELSE IF start >= length /\ step < 0 THEN length - 1
             ELSE start
        e == IF end < 0
             THEN (IF end + length < 0 /\ step < 0 THEN -1 ELSE end + length)
             ELSE IF end > length THEN length
             ELSE end
    IN <<s, e>>

normalizeSliceBounds(start, end, step, length) ==
    LET s == IF start < 0
             THEN (IF start + length < 0 /\ step > 0 THEN 0 ELSE start + length)
             ELSE IF start >= length /\ step < 0 THEN length - 1
             ELSE start
        e == IF end < 0
             THEN (IF end + length < 0 /\ step < 0 THEN -1 ELSE end + length)
             ELSE IF end > length THEN length
             ELSE end
    IN <<s, e>>

\* for i := start; i < end; i += step { if i >= 0 && i < length { append } }
RECURSIVE IndicesUp(_, _, _, _)
IndicesUp(i, end, step, length) ==
    IF i < end
    THEN (IF i >= 0 /\ i < length THEN <<i>> ELSE <<>>)
         \o IndicesUp(i + step, end, step, length)
    ELSE <<>>

\* for i := start; i > end; i += step { if i >= 0 && i < length { append } }
RECURSIVE IndicesDown(_, _, _, _)
IndicesDown(i, end, step, length) ==
    IF i > end
    THEN (IF i >= 0 /\ i < length THEN <<i>> ELSE <<>>)
         \o IndicesDown(i + step, end, step, length)
    ELSE <<>>

sliceIndices(args, length) ==
    LET step == IF args.HasStep THEN args.Step ELSE 1
        start == IF args.HasStart THEN args.Start
                 ELSE IF step > 0 THEN 0 ELSE length - 1
        end == IF args.HasEnd THEN args.End
               ELSE IF step > 0 THEN length ELSE -length - 1
        b == normalizeSliceBounds(start, end, step, length)
    IN IF length = 0 THEN <<>>
       ELSE IF step = 0 THEN <<>>
       ELSE IF step > 0 THEN IndicesUp(b[1], b[2], step, length)
       ELSE IndicesDown(b[1], b[2], step, length)

\* appendSlice: the nodes appended to out
appendSlice(arr, args) ==
    LET idx == sliceIndices(args, Len(arr))
    IN [k \in 1..Len(idx) |-> At(arr, idx[k])]

\* appendSelector: the nodes appended to out
appendSelector(sel, node, rt) ==
    CASE sel.Kind = "Name" ->
           IF IsObj(node) /\ HasKey(node.m, sel.Name) THEN <<Get(node.m, sel.Name)>> ELSE <<>>
      [] sel.Kind = "Index" ->
           IF IsArr(node)
           THEN LET idx == normalizeIndex(sel.Index, Len(node.a))
                IN IF idx >= 0 /\ idx < Len(node.a) THEN <<At(node.a, idx)>> ELSE <<>>
           ELSE <<>>
      [] sel.Kind = "Slice" ->
           IF IsArr(node) THEN appendSlice(node.a, sel.Slice) ELSE <<>>
      [] sel.Kind = "Wildcard" ->
           IF IsObj(node) THEN MapValues(node.m)
           ELSE IF IsArr(node) THEN node.a ELSE <<>>
      [] sel.Kind = "Filter" ->
           IF IsObj(node) THEN Call("KeepMatching", <<sel.Filter, MapValues(node.m), rt>>)
           ELSE IF IsArr(node) THEN Call("KeepMatching", <<sel.Filter, node.a, rt>>) ELSE <<>>

appendSelectors(selectors, node, rt) ==
    IF selectors = <<>> THEN <<>>
    ELSE Call("appendSelector", <<Head(selectors), node, rt>>)
         \o Call("appendSelectors", <<Tail(selectors), node, rt>>)

\* the recursion of appendDescendant into the children, in order
descendInto(seg, children, rt) ==
    IF children = <<>> THEN <<>>
    ELSE Call("appendDescendant", <<seg, Head(children), rt>>) \o Call("descendInto", <<seg, Tail(children), rt>>)

appendDescendant(seg, node, rt) ==
    Call("appendSelectors", <<seg.selectors, node, rt>>)
    \o (IF IsObj(node) THEN Call("descendInto", <<seg, MapValues(node.m), rt>>)
        ELSE IF IsArr(node) THEN Call("descendInto", <<seg, node.a, rt>>)
        ELSE <<>>)

applySegment(seg, nodes, rt) ==
    IF nodes = <<>> THEN <<>>
    ELSE (IF seg.descendant THEN Call("appendDescendant", <<seg, Head(nodes), rt>>)
          ELSE Call("appendSelectors", <<seg.selectors, Head(nodes), rt>>))
         \o Call("applySegment", <<seg, Tail(nodes), rt>>)

applySegments(segments, i, res, input) ==
    IF i > Len(segments) THEN res
    ELSE Call("applySegments", <<segments, i + 1, Call("applySegment", <<segments[i], res, input>>), input>>)

\* Path.Select of a compiled query
Path_Select(query, input) == Call("applySegments", <<query.segments, 1, <<input>>, input>>)

---------------------------------------------------------------------------
(* package jsonpath: the evaluator behind Path.SelectLocated.  A located    *)
(* node is [Value, Path]; a NormalizedPath is a sequence of elements.       *)

NameElement(name) == [e |-> "name", name |-> name]
IndexElement(idx) == [e |-> "index", idx |-> idx]
LocatedNode(value, npath) == [Value |-> value, Path |-> npath]

\* extendPath
extendPath(npath, elem) == Append(npath, elem)

\* the (key, value) pairs of one iteration over a map, the key as an element
MapEntries(m) == [i \in 1..Len(m) |-> [elem |-> NameElement(m[i].k), v |-> m[i].v]]

\* the (index, value) pairs of one iteration over a slice, likewise
SliceEntries(a) == [i \in 1..Len(a) |-> [elem |-> IndexElement(i - 1), v |-> a[i]]]

\* the entries for which the filter holds, each located under npath, in order
KeepMatchingLocated(f, entries, npath, rt) ==
    IF entries = <<>> THEN <<>>
    ELSE (IF Call("FilterExpr_Eval", <<f, Head(entries).v, rt>>)
          THEN <<LocatedNode(Head(entries).v, extendPath(npath, Head(entries).elem))>>
          ELSE <<>>)
         \o Call("KeepMatchingLocated", <<f, Tail(entries), npath, rt>>)

\* appendSliceLocated walking the selected indices from the last to the first
appendSliceLocated_LastFirst(arr, npath, args) ==
    LET idx == sliceIndices(args, Len(arr))
    IN [k \in 1..Len(idx) |->
           LocatedNode(At(arr, idx[Len(idx) + 1 - k]),
                       extendPath(npath, IndexElement(idx[Len(idx) + 1 - k])))]

\* appendSliceLocated: the nodes appended to out
appendSliceLocated(arr, npath, args) ==
    LET idx == sliceIndices(args, Len(arr))
    IN [k \in 1..Len(idx) |->
           LocatedNode(At(arr, idx[k]), extendPath(npath, IndexElement(idx[k])))]

\* appendSelectorLocated: the nodes appended to out
appendSelectorLocated(sel, node, npath, rt) ==
    CASE sel.Kind = "Name" ->
           IF IsObj(node) /\ HasKey(node.m, sel.Name)
           THEN <<LocatedNode(Get(node.m, sel.Name), extendPath(npath, NameElement(sel.Name)))>>
           ELSE <<>>
      [] sel.Kind = "Index" ->
           IF IsArr(node)
           THEN LET idx == normalizeIndex(sel.Index, Len(node.a))
                IN IF idx >= 0 /\ idx < Len(node.a)
                   THEN <<LocatedNode(At(node.a, idx), extendPath(npath, IndexElement(idx)))>>
                   ELSE <<>>
           ELSE <<>>
      [] sel.Kind = "Slice" ->
           IF IsArr(node) THEN appendSliceLocated(node.a, npath, sel.Slice) ELSE <<>>
      [] sel.Kind = "Wildcard" ->
           LET entries == IF IsObj(node) THEN MapEntries(node.m)
                          ELSE IF IsArr(node) THEN SliceEntries(node.a) ELSE <<>>
           IN [k \in 1..Len(entries) |->
                  LocatedNode(entries[k].v, extendPath(npath, entries[k].elem))]
      [] sel.Kind = "Filter" ->
           IF IsObj(node)
           THEN Call("KeepMatchingLocated", <<sel.Filter, MapEntries(node.m), npath, rt>>)
           ELSE IF IsArr(node)
           THEN Call("KeepMatchingLocated", <<sel.Filter, SliceEntries(node.a), npath, rt>>)
           ELSE <<>>

appendSelectorsLocated(selectors, node, npath, rt) ==
    IF selectors = <<>> THEN <<>>
    ELSE Call("appendSelectorLocated", <<Head(selectors), node, npath, rt>>)
         \o Call("appendSelectorsLocated", <<Tail(selectors), node, npath, rt>>)

\* the recursion of appendDescendantLocated into the children, in order
descendIntoLocated(seg, entries, npath, rt) ==
    IF entries = <<>> THEN <<>>
    ELSE Call("appendDescendantLocated",
              <<seg, Head(entries).v, extendPath(npath, Head(entries).elem), rt>>)
         \o Call("descendIntoLocated", <<seg, Tail(entries), npath, rt>>)

appendDescendantLocated(seg, node, npath, rt) ==
    Call("appendSelectorsLocated", <<seg.selectors, node, npath, rt>>)
    \o (IF IsObj(node) THEN Call("descendIntoLocated", <<seg, MapEntries(node.m), npath, rt>>)
        ELSE IF IsArr(node)
        THEN Call("descendIntoLocated", <<seg, SliceEntries(node.a), npath, rt>>)
        ELSE <<>>)

applySegmentLocated(seg, nodes, rt) ==
    IF nodes = <<>> THEN <<>>
    ELSE (IF seg.descendant
          THEN Call("appendDescendantLocated", <<seg, Head(nodes).Value, Head(nodes).Path, rt>>)
          ELSE Call("appendSelectorsLocated",
                    <<seg.selectors, Head(nodes).Value, Head(nodes).Path, rt>>))
         \o Call("applySegmentLocated", <<seg, Tail(nodes), rt>>)

applySegmentsLocated(segments, i, res, input) ==
    IF i > Len(segments) THEN res
    ELSE Call("applySegmentsLocated",
              <<segments, i + 1, Call("applySegmentLocated", <<segments[i], res, input>>),
                input>>)

\* Path.SelectLocated of a compiled query
Path_SelectLocated(query, input) ==
    Call("applySegmentsLocated", <<query.segments, 1, <<LocatedNode(input, <<>>)>>, input>>)

---------------------------------------------------------------------------
(* package lexer.  The lexer's position i is the 1-based index of the       *)
(* current rune l.r; l.rPos is i - 1 and the rune past the end is "EOF".    *)

runeAt(src, i) == IF i >= 1 /\ i <= Len(src) THEN src[i] ELSE "EOF"

isBlankSpace(r) == r \in {" ", "HT", "LF", "CR"}

isDigit(r) == CharCode(r) >= 48 /\ CharCode(r) <= 57

isNameFirst(r) ==
    LET n == CharCode(r)
    IN \/ (n >= 97 /\ n <= 122)
       \/ (n >= 65 /\ n <= 90)
       \/ n = 95
       \/ (n >= 128 /\ n <= 55295)
       \/ (n >= 57344 /\ n <= 1114111)

isNameChar(r) == isNameFirst(r) \/ isDigit(r)

isUnescaped(r, quote) ==
    LET n == CharCode(r)
    IN IF r = quote THEN FALSE
       ELSE \/ (n >= 32 /\ n <= 91)
            \/ (n >= 93 /\ n <= 55295)
            \/ (n >= 57344 /\ n <= 1114111)

hexVal(r) ==
    LET n == CharCode(r)
    IN IF n >= 48 /\ n <= 57 THEN n - 48
       ELSE IF n >= 97 /\ n <= 102 THEN n - 97 + 10
       ELSE IF n >= 65 /\ n <= 70 THEN n - 65 + 10
       ELSE -1

\* a token; Value is the parsed content of a String, Msg the message of an
\* Invalid token
Token(kind, start, end) ==
    [Kind |-> kind, Start |-> start, End |-> end, Value |-> <<>>, Msg |-> ""]

\* what a scan returns: the token and the lexer's next position
Scanned(tok, i) == [tok |-> tok, next |-> i]

\* errToken that leaves the lexer where it is
errToken_NoHalt(src, start, i, msg) ==
    Scanned([Kind |-> "Invalid", Start |-> start, End |-> i - 1,
             Value |-> <<>>, Msg |-> msg], i)

\* Lexer.errToken: the Invalid token; the lexer halts (l.r = -1)
errToken(src, start, i, msg) ==
    Scanned([Kind |-> "Invalid", Start |-> start, End |-> i - 1,
             Value |-> <<>>, Msg |-> msg], Len(src) + 1)

\* the position after the run of characters satisfying a class
RECURSIVE skipBlank(_, _)
skipBlank(src, i) == IF isBlankSpace(runeAt(src, i)) THEN skipBlank(src, i + 1) ELSE i

RECURSIVE skipDigits(_, _)
skipDigits(src, i) == IF isDigit(runeAt(src, i)) THEN skipDigits(src, i + 1) ELSE i

RECURSIVE skipName(_, _)
skipName(src, i) == IF isNameChar(runeAt(src, i)) THEN skipName(src, i + 1) ELSE i

scanIdent(src, i) ==
    LET j == skipName(src, i)
        raw == SubSeq(src, i, j - 1)
        kind == IF raw = <<"t", "r", "u", "e">> THEN "True"
                ELSE IF raw = <<"f", "a", "l", "s", "e">> THEN "False"
                ELSE IF raw = <<"n", "u", "l", "l">> THEN "Null"
                ELSE "Ident"
    IN Scanned(Token(kind, i - 1, j - 1), j)

scanNumber(src, i) ==
    LET start == i - 1
        i1 == IF runeAt(src, i) = "-" THEN i + 1 ELSE i
        i2 == IF runeAt(src, i1) = "0" THEN i1 + 1 ELSE skipDigits(src, i1)
        hasFrac == runeAt(src, i2) = "."
        i3 == IF hasFrac THEN skipDigits(src, i2 + 1) ELSE i2
        hasExp == runeAt(src, i3) \in {"e", "E"}
        i4 == IF hasExp /\ runeAt(src, i3 + 1) \in {"+", "-"} THEN i3 + 2
              ELSE IF hasExp THEN i3 + 1 ELSE i3
        i5 == IF hasExp THEN skipDigits(src, i4) ELSE i3
    IN IF runeAt(src, i) = "-" /\ ~isDigit(runeAt(src, i1))
       THEN errToken(src, start, i1, "expected digit after '-'")
       ELSE IF runeAt(src, i1) = "0" /\ isDigit(runeAt(src, i2))
       THEN errToken(src, start, i2, "leading zeros not allowed")
       ELSE IF hasFrac /\ ~isDigit(runeAt(src, i2 + 1))
       THEN errToken(src, start, i2 + 1, "expected digit after '.'")
       ELSE IF hasExp /\ ~isDigit(runeAt(src, i4))
       THEN errToken(src, start, i4, "expected digit in exponent")
       ELSE Scanned(Token(IF hasFrac \/ hasExp THEN "Number" ELSE "Int", start, i5 - 1), i5)

\* Lexer.scanHex4 at position i: the code point, or -1
scanHex4(src, i) ==
    IF \E k \in 0..3 : hexVal(runeAt(src, i + k)) < 0 THEN -1
    ELSE hexVal(runeAt(src, i)) * 4096 + hexVal(runeAt(src, i + 1)) * 256
         + hexVal(runeAt(src, i + 2)) * 16 + hexVal(runeAt(src, i + 3))

\* the outcome of an escape: whether it is valid, the characters written to
\* buf and the lexer's next position
Escaped(ok, out, i) == [ok |-> ok, out |-> out, next |-> i]

\* Lexer.scanUnicodeEscape; on entry the current rune, at i, is 'u'
scanUnicodeEscape(src, i) ==
    LET r == scanHex4(src, i + 1)
        low == scanHex4(src, i + 7)
        decoded == 65536 + (r - 55296) * 1024 + (low - 56320)
    IN IF r < 0 THEN Escaped(FALSE, <<>>, i)
       ELSE IF ~(r >= 55296 /\ r <= 57343) THEN Escaped(TRUE, <<CodeChar(r)>>, i + 5)
       ELSE IF r >= 56320 THEN Escaped(FALSE, <<>>, i)
       ELSE IF runeAt(src, i + 5) # "\\" THEN Escaped(FALSE, <<>>, i)
       ELSE IF runeAt(src, i + 6) # "u" THEN Escaped(FALSE, <<>>, i)
       ELSE IF low < 0 THEN Escaped(FALSE, <<>>, i)
       ELSE IF ~(low >= 56320 /\ low <= 57343) THEN Escaped(FALSE, <<>>, i)
       ELSE Escaped(TRUE, <<CodeChar(decoded)>>, i + 11)

\* Lexer.scanEscape; on entry the current rune, at i, is the backslash
scanEscape(src, i, quote) ==
    LET r == runeAt(src, i + 1)
    IN CASE r = quote -> Escaped(TRUE, <<quote>>, i + 2)
         [] r = "b" -> Escaped(TRUE, <<"BS">>, i + 2)
         [] r = "f" -> Escaped(TRUE, <<"FF">>, i + 2)
         [] r = "n" -> Escaped(TRUE, <<"LF">>, i + 2)
         [] r = "r" -> Escaped(TRUE, <<"CR">>, i + 2)
         [] r = "t" -> Escaped(TRUE, <<"HT">>, i + 2)
         [] r = "/" -> Escaped(TRUE, <<"/">>, i + 2)
         [] r = "\\" -> Escaped(TRUE, <<"\\">>, i + 2)
         [] r = "u" -> Call("scanUnicodeEscape", <<src, i + 1>>)
         [] OTHER -> Escaped(FALSE, <<>>, i)

\* the loop of Lexer.scanString
scanStringLoop(src, start, quote, buf, i) ==
    LET r == runeAt(src, i)
    IN IF r = "EOF" THEN errToken(src, start, i, "unterminated string")
       ELSE IF r = quote
            THEN Scanned([Kind |-> "String", Start |-> start, End |-> i,
                          Value |-> buf, Msg |-> ""], i + 1)
       ELSE IF r = "\\"
            THEN LET e == Call("scanEscape", <<src, i, quote>>)
                 IN IF ~e.ok THEN errToken(src, start, i, "invalid escape sequence")
                    ELSE Call("scanStringLoop", <<src, start, quote, buf \o e.out, e.next>>)
       ELSE IF isUnescaped(r, quote)
            THEN Call("scanStringLoop", <<src, start, quote, Append(buf, r), i + 1>>)
       ELSE errToken(src, start, i, "invalid character in string")

scanString(src, i) == Call("scanStringLoop", <<src, i - 1, runeAt(src, i), <<>>, i + 1>>)


\* a one-rune token, and the two-rune token that a following rune makes
oneRune(kind, i) == Scanned(Token(kind, i - 1, i), i + 1)
twoRunes(kind, i) == Scanned(Token(kind, i - 1, i + 1), i + 2)

\* Lexer.Scan with the lexer at position i0
Scan(src, i0) ==
    LET i == skipBlank(src, i0)
        r == runeAt(src, i)
        nxt == runeAt(src, i + 1)
    IN CASE r = "EOF" -> Scanned(Token("EOF", i - 1, i - 1), i)
         [] r = "$" -> oneRune("Dollar", i)
         [] r = "@" -> oneRune("At", i)
         [] r = "[" -> oneRune("LeftBracket", i)
         [] r = "]" -> oneRune("RightBracket", i)
         [] r = "(" -> oneRune("LeftParen", i)
         [] r = ")" -> oneRune("RightParen", i)
         [] r = "*" -> oneRune("Star", i)
         [] r = "?" -> oneRune("Question", i)
         [] r = "," -> oneRune("Comma", i)
         [] r = ":" -> oneRune("Colon", i)
         [] r = "." -> IF nxt = "." THEN twoRunes("DotDot", i) ELSE oneRune("Dot", i)
         [] r = "=" -> IF nxt = "=" THEN twoRunes("Equal", i)
                       ELSE errToken(src, i - 1, i + 1, "unexpected '='")
         [] r = "!" -> IF nxt = "=" THEN twoRunes("NotEqual", i) ELSE oneRune("Not", i)
         [] r = "<" -> IF nxt = "=" THEN twoRunes("LessEqual", i) ELSE oneRune("Less", i)
         [] r = ">" -> IF nxt = "=" THEN twoRunes("GreaterEqual", i)
                       ELSE oneRune("Greater", i)
         [] r = "&" -> IF nxt = "&" THEN twoRunes("And", i)
                       ELSE errToken(src, i - 1, i + 1, "unexpected '&'")
         [] r = "|" -> IF nxt = "|" THEN twoRunes("Or", i)
                       ELSE errToken(src, i - 1, i + 1, "unexpected '|'")
         [] r \in {"\"", "'"} -> Call("scanString", <<src, i>>)
         [] r = "-" -> Call("scanNumber", <<src, i>>)
         [] OTHER -> IF isDigit(r) THEN Call("scanNumber", <<src, i>>)
                     ELSE IF isNameFirst(r) THEN scanIdent(src, i)
                     ELSE errToken(src, i - 1, i + 1, "unexpected character")

\* Lexer.Scan returning the token without moving the lexer past it
Lexer_Scan_NoAdvance(l) ==
    LET sc == Call("Scan", <<l.src, l.i>>)
    IN [tok |-> sc.tok, l |-> l]

\* Lexer.Scan on the lexer l: the token and the lexer afterwards
Lexer_Scan(l) ==
    LET sc == Call("Scan", <<l.src, l.i>>)
    IN [tok |-> sc.tok, l |-> [src |-> l.src, i |-> sc.next]]

---------------------------------------------------------------------------
(* package parser.  A parser p is the record [src, tokens, funcs]; p.pos is *)
(* threaded through the parse functions, each of which returns either       *)
(* Ok(value, pos) or an error.                                              *)

\* the token loop of parser.New
scanAll(src, i, tokens) ==
    LET sc == Call("Scan", <<src, i>>)
    IN IF sc.tok.Kind \in {"EOF", "Invalid"} THEN Append(tokens, sc.tok)
       ELSE Call("scanAll", <<src, sc.next, Append(tokens, sc.tok)>>)

Ok(v, pos) == [err |-> "", v |-> v, pos |-> pos]
\* an error value: its message, the sentinel it wraps, and the byte offset
\* its text carries (NoOffset when the text carries none)
NoOffset == 0 - 1
FailAt(msg, sentinel, at) == [err |-> msg, sentinel |-> sentinel, at |-> at]
Fail(msg, sentinel) == FailAt(msg, sentinel, NoOffset)

\* parser.New
New(src, funcs) ==
    LET tokens == Call("scanAll", <<src, 1, <<>>>>)
    IN IF tokens[Len(tokens)].Kind = "Invalid"
       THEN FailAt(tokens[Len(tokens)].Msg, "ErrSyntax", tokens[Len(tokens)].Start)
       ELSE Ok([src |-> src, tokens |-> tokens, funcs |-> funcs], 0)

peek(p, pos) ==
    IF pos < Len(p.tokens) THEN p.tokens[pos + 1] ELSE Token("EOF", 0, 0)

previous(p, pos) ==
    IF pos > 0 /\ pos <= Len(p.tokens) THEN p.tokens[pos] ELSE Token("Invalid", 0, 0)

isAtEnd(p, pos) == pos >= Len(p.tokens) \/ peek(p, pos).Kind = "EOF"

check(p, pos, kind) == IF isAtEnd(p, pos) THEN FALSE ELSE peek(p, pos).Kind = kind

\* Parser.advance: the new p.pos (the token returned is previous(p, pos'))
advance(p, pos) == IF ~isAtEnd(p, pos) THEN pos + 1 ELSE pos

\* Parser.match reports check(kinds) and, when it holds, advances
match(p, pos, kinds) == \E k \in kinds : check(p, pos, k)

\* Token.Val: the raw source text of a token
Val(p, tok) == SubSeq(p.src, tok.Start + 1, tok.End)

\* Parser.error
error(p, pos, msg) ==
    IF peek(p, pos).Kind = "EOF" THEN Fail(msg, "ErrParseEnd")
    ELSE FailAt(msg, "ErrParsePosition", peek(p, pos).Start)

\* strconv.ParseInt(s, 10, 64) of an Int token: the value, or "range"
RECURSIVE digitsValue(_, _)
digitsValue(ds, acc) ==
    IF ds = <<>> THEN acc
    ELSE digitsValue(Tail(ds), acc * 10 + (CharCode(Head(ds)) - 48))

\* whether the decimal numeral ds (no leading zeros) exceeds the numeral lim
RECURSIVE numeralGreater(_, _)
numeralGreater(ds, lim) ==
    IF Len(ds) # Len(lim) THEN Len(ds) > Len(lim)
    ELSE IF ds = <<>> THEN FALSE
    ELSE IF Head(ds) # Head(lim) THEN CharCode(Head(ds)) > CharCode(Head(lim))
    ELSE numeralGreater(Tail(ds), Tail(lim))

\* the numeral of math.MaxInt64
maxInt64 ==
    <<"9", "2", "2", "3", "3", "7", "2", "0", "3", "6", "8", "5", "4", "7", "7",
      "5", "8", "0", "7">>

\* the numeral of the magnitude of math.MinInt64
minInt64 ==
    <<"9", "2", "2", "3", "3", "7", "2", "0", "3", "6", "8", "5", "4", "7", "7",
      "5", "8", "0", "8">>

\* the numeral of maxIndex, 2^53 - 1
maxIndex ==
    <<"9", "0", "0", "7", "1", "9", "9", "2", "5", "4", "7", "4", "0", "9", "9", "1">>

ParseInt(raw) ==
    LET neg == raw[1] = "-"
        ds == IF neg THEN Tail(raw) ELSE raw
    IN IF numeralGreater(ds, IF neg THEN minInt64 ELSE maxInt64)
       THEN [err |-> "range", neg |-> neg, ds |-> ds]
       ELSE [err |-> "", neg |-> neg, ds |-> ds]

\* the int64 ParseInt returned; the numeral is kept beside it because the
\* value of a numeral of more than nine digits is beyond the integers of
\* the model checker
IntOf(n) == IF n.neg THEN -digitsValue(n.ds, 0) ELSE digitsValue(n.ds, 0)

RECURSIVE pow10(_)
pow10(k) == IF k <= 0 THEN 1 ELSE 10 * pow10(k - 1)

\* strconv.ParseFloat(s, 64) of a Number token whose value is an integer
\* (1.0, 2e1, 10e-1): the numbers the model draws
ParseFloat(raw) ==
    LET neg == raw[1] = "-"
        body == IF neg THEN Tail(raw) ELSE raw
        iEnd == skipDigits(body, 1)
        hasFrac == runeAt(body, iEnd) = "."
        fEnd == IF hasFrac THEN skipDigits(body, iEnd + 1) ELSE iEnd
        frac == IF hasFrac THEN SubSeq(body, iEnd + 1, fEnd - 1) ELSE <<>>
        hasExp == runeAt(body, fEnd) \in {"e", "E"}
        eNeg == hasExp /\ runeAt(body, fEnd + 1) = "-"
        eAt == IF hasExp /\ runeAt(body, fEnd + 1) \in {"+", "-"} THEN fEnd + 2
               ELSE fEnd + 1
        ex == IF hasExp THEN digitsValue(SubSeq(body, eAt, Len(body)), 0) ELSE 0
        scale == (IF eNeg THEN -ex ELSE ex) - Len(frac)
        num == digitsValue(SubSeq(body, 1, iEnd - 1) \o frac, 0)
        mag == IF scale >= 0 THEN num * pow10(scale) ELSE num \div pow10(-scale)
    IN IF neg THEN -mag ELSE mag

parseDotChild(p, pos) ==
    LET dotToken == previous(p, pos)
    IN IF ~isAtEnd(p, pos) /\ dotToken.End < peek(p, pos).Start
       THEN error(p, pos, "whitespace not allowed after .")
       ELSE IF match(p, pos, {"Star"}) THEN Ok(WildcardSelector, pos + 1)
       ELSE IF match(p, pos, {"Ident", "True", "False", "Null"})
       THEN Ok(NameSelector(Val(p, peek(p, pos))), pos + 1)
       ELSE error(p, pos, "expected * or identifier after .")


\* the loop of Parser.parseSegments, segments being those parsed so far
parseSegments(p, pos, segments) ==
    IF isAtEnd(p, pos) THEN Ok(segments, pos)
    ELSE IF match(p, pos, {"DotDot"})
         THEN LET r == Call("parseDescendantSegment", <<p, pos + 1>>)
              IN IF r.err # "" THEN r ELSE Call("parseSegments", <<p, r.pos, Append(segments, r.v)>>)
    ELSE IF match(p, pos, {"LeftBracket"})
         THEN LET r == Call("parseBracketedSelection", <<p, pos + 1, <<>>>>)
              IN IF r.err # "" THEN r
                 ELSE Call("parseSegments", <<p, r.pos, Append(segments, Child(r.v))>>)
    ELSE IF match(p, pos, {"Dot"})
         THEN LET r == parseDotChild(p, pos + 1)
              IN IF r.err # "" THEN r
                 ELSE Call("parseSegments", <<p, r.pos, Append(segments, Child(<<r.v>>))>>)
    ELSE Ok(segments, pos)

parseDescendantSegment(p, pos) ==
    LET dotDotToken == previous(p, pos)
    IN IF ~isAtEnd(p, pos) /\ dotDotToken.End < peek(p, pos).Start
       THEN error(p, pos, "whitespace not allowed after ..")
       ELSE IF match(p, pos, {"LeftBracket"})
       THEN LET r == Call("parseBracketedSelection", <<p, pos + 1, <<>>>>)
            IN IF r.err # "" THEN r ELSE Ok(Descendant(r.v), r.pos)
       ELSE IF match(p, pos, {"Star"}) THEN Ok(Descendant(<<WildcardSelector>>), pos + 1)
       ELSE IF match(p, pos, {"Ident", "True", "False", "Null"})
       THEN Ok(Descendant(<<NameSelector(Val(p, peek(p, pos)))>>), pos + 1)
       ELSE error(p, pos, "expected [, *, or identifier after ..")

\* the loop of Parser.parseBracketedSelection
parseBracketedSelection(p, pos, selectors) ==
    LET r == Call("parseSelector", <<p, pos>>)
    IN IF r.err # "" THEN r
       ELSE IF match(p, r.pos, {"Comma"})
       THEN Call("parseBracketedSelection", <<p, r.pos + 1, Append(selectors, r.v)>>)
       ELSE IF ~match(p, r.pos, {"RightBracket"}) THEN error(p, r.pos, "expected ] or ,")
       ELSE Ok(Append(selectors, r.v), r.pos + 1)

\* the same, without the -0 rule
parseBound_AllowMinusZero(p, pos) ==
    LET tok == peek(p, pos)
        n == ParseInt(Val(p, tok))
    IN IF n.err # "" THEN Fail("invalid integer", "ErrRange")
       ELSE IF numeralGreater(n.ds, maxIndex) THEN error(p, pos + 1, "index out of range")
       ELSE Ok(IntOf(n), pos + 1)

\* an integer of an index or a slice: ParseInt, the -0 rule (the lexer
\* lets no numeral but 0 start with 0, so that the value is 0 exactly when
\* the numeral is "0") and the range
parseBound(p, pos) ==
    LET tok == peek(p, pos)
        n == ParseInt(Val(p, tok))
    IN IF n.err # "" THEN Fail("invalid integer", "ErrRange")
       ELSE IF n.ds = <<"0">> /\ Val(p, tok)[1] = "-" THEN error(p, pos + 1, "-0 is not allowed")
       ELSE IF numeralGreater(n.ds, maxIndex) THEN error(p, pos + 1, "index out of range")
       ELSE Ok(IntOf(n), pos + 1)

\* Parser.parseSlice; on entry the first colon has been consumed
parseSlice(p, pos, start, hasStart) ==
    LET e == IF check(p, pos, "Int") THEN Call("parseBound", <<p, pos>>) ELSE Ok(0, pos)
        hasEnd == check(p, pos, "Int")
        colon == e.err = "" /\ match(p, e.pos, {"Colon"})
        q == IF colon THEN e.pos + 1 ELSE e.pos
        hasStep == colon /\ check(p, q, "Int")
        st == IF hasStep THEN Call("parseBound", <<p, q>>) ELSE Ok(0, q)
    IN IF e.err # "" THEN e
       ELSE IF st.err # "" THEN st
       ELSE Ok(SliceSelector([Start |-> start, End |-> e.v, Step |-> st.v,
                              HasStart |-> hasStart, HasEnd |-> hasEnd,
                              HasStep |-> hasStep]), st.pos)

parseIndexOrSlice(p, pos) ==
    LET s == Call("parseBound", <<p, pos>>)
    IN IF s.err # "" THEN s
       ELSE IF match(p, s.pos, {"Colon"}) THEN Call("parseSlice", <<p, s.pos + 1, s.v, TRUE>>)
       ELSE Ok(IndexSelector(s.v), s.pos)

parseSelector(p, pos) ==
    IF match(p, pos, {"Star"}) THEN Ok(WildcardSelector, pos + 1)
    ELSE IF match(p, pos, {"Question"})
         THEN LET r == Call("parseFilterExpr", <<p, pos + 1>>)
              IN IF r.err # "" THEN r ELSE Ok(FilterSelector(r.v), r.pos)
    ELSE IF check(p, pos, "String") THEN Ok(NameSelector(peek(p, pos).Value), pos + 1)
    ELSE IF check(p, pos, "Int") THEN Call("parseIndexOrSlice", <<p, pos>>)
    ELSE IF match(p, pos, {"Colon"}) THEN Call("parseSlice", <<p, pos + 1, 0, FALSE>>)
    ELSE error(p, pos, "expected selector")

parseFilterExpr(p, pos) ==
    LET r == Call("parseLogicalOr", <<p, pos, <<>>>>)
    IN IF r.err # "" THEN r ELSE Ok([Or |-> r.v], r.pos)

\* the loop of Parser.parseLogicalOr
parseLogicalOr(p, pos, ands) ==
    LET r == Call("parseLogicalAnd", <<p, pos, <<>>>>)
    IN IF r.err # "" THEN r
       ELSE IF match(p, r.pos, {"Or"}) THEN Call("parseLogicalOr", <<p, r.pos + 1, Append(ands, r.v)>>)
       ELSE Ok(Append(ands, r.v), r.pos)

\* the loop of Parser.parseLogicalAnd
parseLogicalAnd(p, pos, exprs) ==
    LET r == Call("parseBasicExpr", <<p, pos>>)
    IN IF r.err # "" THEN r
       ELSE IF match(p, r.pos, {"And"})
       THEN Call("parseLogicalAnd", <<p, r.pos + 1, Append(exprs, r.v)>>)
       ELSE Ok(Append(exprs, r.v), r.pos)

checkCompOp(p, pos) ==
    \E k \in {"Equal", "NotEqual", "Less", "LessEqual", "Greater", "GreaterEqual"} :
        check(p, pos, k)

\* Parser.parseCompOp: the operator (the position advances by one)
parseCompOp(p, pos) ==
    CASE check(p, pos, "Equal") -> "=="
      [] check(p, pos, "NotEqual") -> "!="
      [] check(p, pos, "Less") -> "<"
      [] check(p, pos, "LessEqual") -> "<="
      [] check(p, pos, "Greater") -> ">"
      [] check(p, pos, "GreaterEqual") -> ">="
      [] OTHER -> "=="

parseLiteralValue(p, pos) ==
    LET tok == peek(p, pos)
    IN IF check(p, pos, "String") THEN Ok(Str(tok.Value), pos + 1)
       ELSE IF check(p, pos, "Int")
            THEN LET n == ParseInt(Val(p, tok))
                 IN IF n.err # "" THEN Fail("value out of range", "ErrRange")
                    ELSE Ok(Int64(IntOf(n)), pos + 1)
       ELSE IF check(p, pos, "Number") THEN Ok(Float64(Call("ParseFloat", <<Val(p, tok)>>)), pos + 1)
       ELSE IF check(p, pos, "True") THEN Ok(Bool(TRUE), pos + 1)
       ELSE IF check(p, pos, "False") THEN Ok(Bool(FALSE), pos + 1)
       ELSE IF check(p, pos, "Null") THEN Ok(JSONNull, pos + 1)
       ELSE error(p, pos, "expected literal value")

parseBasicExpr(p, pos) ==
    IF match(p, pos, {"Not"})
    THEN IF match(p, pos + 1, {"LeftParen"})
         THEN LET r == Call("parseLogicalOr", <<p, pos + 2, <<>>>>)
              IN IF r.err # "" THEN r
                 ELSE IF ~match(p, r.pos, {"RightParen"}) THEN error(p, r.pos, "expected )")
                 ELSE Ok(NotParenExpr(r.v), r.pos + 1)
         ELSE IF check(p, pos + 1, "Ident")
         THEN LET r == Call("parseFunctionExpr", <<p, pos + 1>>)
              IN IF r.err # "" THEN r
                 ELSE IF r.v.fn.resultType # "Logical"
                 THEN error(p, r.pos, "only logical functions can be negated")
                 ELSE Ok(NegFuncExpr(r.v), r.pos)
         ELSE LET r == Call("parseFilterQuery", <<p, pos + 1>>)
              IN IF r.err # "" THEN r ELSE Ok(NonExistExpr(r.v), r.pos)
    ELSE IF match(p, pos, {"LeftParen"})
    THEN LET r == Call("parseLogicalOr", <<p, pos + 1, <<>>>>)
         IN IF r.err # "" THEN r
            ELSE IF ~match(p, r.pos, {"RightParen"}) THEN error(p, r.pos, "expected )")
            ELSE Ok(ParenExpr(r.v), r.pos + 1)
    ELSE IF check(p, pos, "Ident")
    THEN LET r == Call("parseFunctionExpr", <<p, pos>>)
         IN IF r.err # "" THEN r
            ELSE IF checkCompOp(p, r.pos)
            THEN IF r.v.fn.resultType = "Logical"
                 THEN error(p, r.pos, "logical function result cannot be compared")
                 ELSE LET right == Call("parseCompValue", <<p, r.pos + 1>>)
                      IN IF right.err # "" THEN right
                         ELSE Ok(CompExpr(FuncValue(r.v), parseCompOp(p, r.pos), right.v),
                                 right.pos)
            ELSE IF r.v.fn.resultType # "Logical"
            THEN error(p, r.pos, "value function must be used in comparison")
            ELSE Ok(FuncTest(r.v), r.pos)
    ELSE IF check(p, pos, "At") \/ check(p, pos, "Dollar")
    THEN Call("parseTestOrComparison", <<p, pos>>)
    ELSE IF \E k \in {"String", "Int", "Number", "True", "False", "Null"} : check(p, pos, k)
    THEN Call("parseComparisonFromLiteral", <<p, pos>>)
    ELSE error(p, pos, "expected filter expression")

parseTestOrComparison(p, pos) ==
    LET r == Call("parseFilterQuery", <<p, pos>>)
    IN IF r.err # "" THEN r
       ELSE IF checkCompOp(p, r.pos)
       THEN IF ~PathQuery_IsSingular(r.v)
            THEN error(p, r.pos, "non-singular query is not allowed in comparison")
            ELSE LET right == Call("parseCompValue", <<p, r.pos + 1>>)
                 IN IF right.err # "" THEN right
                    ELSE Ok(CompExpr(QueryValue(r.v), parseCompOp(p, r.pos), right.v),
                            right.pos)
       ELSE Ok(ExistExpr(r.v), r.pos)

parseComparisonFromLiteral(p, pos) ==
    LET left == Call("parseLiteralValue", <<p, pos>>)
    IN IF left.err # "" THEN left
       ELSE IF ~checkCompOp(p, left.pos)
       THEN error(p, left.pos, "expected comparison operator")
       ELSE LET right == Call("parseCompValue", <<p, left.pos + 1>>)
            IN IF right.err # "" THEN right
               ELSE Ok(CompExpr(LiteralValue(left.v), parseCompOp(p, left.pos), right.v),
                       right.pos)

\* the argument types parseFunctionExpr derives from the argument expressions
argTypeOf(arg) ==
    CASE arg.a = "query" -> IF PathQuery_IsSingular(arg.q) THEN "QueryArg" ELSE "FilterArg"
      [] arg.a = "func" -> "FunctionArg"
      [] OTHER -> "Literal"

\* the loop of parseFunctionExpr that resolves each QueryArg, from index i on
RECURSIVE resolveQueryArgs(_, _, _)
resolveQueryArgs(fn, argTypes, i) ==
    IF i > Len(argTypes) THEN argTypes
    ELSE IF argTypes[i] # "QueryArg" THEN resolveQueryArgs(fn, argTypes, i + 1)
    ELSE LET probe == [argTypes EXCEPT ![i] = "FilterArg"]
         IN IF Function_Validate(fn, probe) = "" THEN resolveQueryArgs(fn, probe, i + 1)
            ELSE resolveQueryArgs(fn, argTypes, i + 1)

\* the loop of parseFunctionExpr that parses the arguments
parseFunctionArgs(p, pos, args) ==
    LET r == Call("parseFunctionArg", <<p, pos>>)
    IN IF r.err # "" THEN r
       ELSE IF match(p, r.pos, {"Comma"})
       THEN Call("parseFunctionArgs", <<p, r.pos + 1, Append(args, r.v)>>)
       ELSE Ok(Append(args, r.v), r.pos)

parseFunctionExpr(p, pos) ==
    LET pos1 == advance(p, pos)
        nameToken == previous(p, pos1)
        name == Val(p, nameToken)
        a == IF ~check(p, pos1 + 1, "RightParen") THEN Call("parseFunctionArgs", <<p, pos1 + 1, <<>>>>)
             ELSE Ok(<<>>, pos1 + 1)
    IN IF ~isAtEnd(p, pos1) /\ nameToken.End < peek(p, pos1).Start
       THEN error(p, pos1, "whitespace not allowed between function name and (")
       ELSE IF ~match(p, pos1, {"LeftParen"})
       THEN error(p, pos1, "expected ( after function name")
       ELSE IF a.err # "" THEN a
       ELSE IF ~match(p, a.pos, {"RightParen"}) THEN error(p, a.pos, "expected )")
       ELSE IF name \notin DOMAIN p.funcs THEN Fail("unknown function", "ErrUnknownFunction")
       ELSE LET fn == p.funcs[name]
                argTypes == [i \in 1..Len(a.v) |-> argTypeOf(a.v[i])]
            IN IF fn.iface # "ast" THEN Fail("invalid function", "ErrInvalidFunction")
               ELSE IF Function_Validate(fn, argTypes) # ""
               THEN Fail("invalid arguments", Function_Validate(fn, argTypes))
               ELSE Ok(NewFuncExpr(fn, resolveQueryArgs(fn, argTypes, 1), a.v), a.pos + 1)

parseFunctionArg(p, pos) ==
    IF check(p, pos, "At") \/ check(p, pos, "Dollar")
    THEN LET r == Call("parseFilterQuery", <<p, pos>>)
         IN IF r.err # "" THEN r ELSE Ok(QueryArgExpr(r.v), r.pos)
    ELSE IF check(p, pos, "Ident")
    THEN LET r == Call("parseFunctionExpr", <<p, pos>>)
         IN IF r.err # "" THEN r ELSE Ok(FuncArgExpr(r.v), r.pos)
    ELSE LET r == Call("parseLiteralValue", <<p, pos>>)
         IN IF r.err # "" THEN r ELSE Ok(LiteralArgExpr(r.v), r.pos)

parseFilterQuery(p, pos) ==
    IF ~match(p, pos, {"Dollar", "At"}) THEN error(p, pos, "expected $ or @")
    ELSE LET isRoot == previous(p, pos + 1).Kind = "Dollar"
             r == Call("parseSegments", <<p, pos + 1, <<>>>>)
         IN IF r.err # "" THEN r ELSE Ok(NewPathQuery(isRoot, r.v), r.pos)

\* parseCompValue without the check of the function's result type
parseCompValue_NoLogicalCheck(p, pos) ==
    IF check(p, pos, "Ident")
    THEN LET r == Call("parseFunctionExpr", <<p, pos>>)
         IN IF r.err # "" THEN r ELSE Ok(FuncValue(r.v), r.pos)
    ELSE IF check(p, pos, "At") \/ check(p, pos, "Dollar")
    THEN LET r == Call("parseFilterQuery", <<p, pos>>)
         IN IF r.err # "" THEN r
            ELSE IF ~PathQuery_IsSingular(r.v)
            THEN error(p, r.pos, "non-singular query is not allowed in comparison")
            ELSE Ok(QueryValue(r.v), r.pos)
    ELSE LET r == Call("parseLiteralValue", <<p, pos>>)
         IN IF r.err # "" THEN r ELSE Ok(LiteralValue(r.v), r.pos)

\* parseCompValue without the check that a query is singular
parseCompValue_NoSingularCheck(p, pos) ==
    IF check(p, pos, "Ident")
    THEN LET r == Call("parseFunctionExpr", <<p, pos>>)
         IN IF r.err # "" THEN r
            ELSE IF r.v.fn.resultType = "Logical"
            THEN error(p, r.pos, "logical function result cannot be compared")
            ELSE Ok(FuncValue(r.v), r.pos)
    ELSE IF check(p, pos, "At") \/ check(p, pos, "Dollar")
    THEN LET r == Call("parseFilterQuery", <<p, pos>>)
         IN IF r.err # "" THEN r ELSE Ok(QueryValue(r.v), r.pos)
    ELSE LET r == Call("parseLiteralValue", <<p, pos>>)
         IN IF r.err # "" THEN r ELSE Ok(LiteralValue(r.v), r.pos)

parseCompValue(p, pos) ==
    IF check(p, pos, "Ident")
    THEN LET r == Call("parseFunctionExpr", <<p, pos>>)
         IN IF r.err # "" THEN r
            ELSE IF r.v.fn.resultType = "Logical"
            THEN error(p, r.pos, "logical function result cannot be compared")
            ELSE Ok(FuncValue(r.v), r.pos)
    ELSE IF check(p, pos, "At") \/ check(p, pos, "Dollar")
    THEN LET r == Call("parseFilterQuery", <<p, pos>>)
         IN IF r.err # "" THEN r
            ELSE IF ~PathQuery_IsSingular(r.v)
            THEN error(p, r.pos, "non-singular query is not allowed in comparison")
            ELSE Ok(QueryValue(r.v), r.pos)
    ELSE LET r == Call("parseLiteralValue", <<p, pos>>)
         IN IF r.err # "" THEN r ELSE Ok(LiteralValue(r.v), r.pos)

\* Parser.Parse of package parser
Parse(p) ==
    IF Len(p.src) > 0 /\ isBlankSpace(p.src[1])
    THEN Fail("leading whitespace not allowed", "ErrParsePosition")
    ELSE IF Len(p.src) > 0 /\ isBlankSpace(p.src[Len(p.src)])
    THEN Fail("trailing whitespace not allowed", "ErrParsePosition")
    ELSE IF ~match(p, 0, {"Dollar", "At"}) THEN error(p, 0, "expected $ or @")
    ELSE LET isRoot == previous(p, 1).Kind = "Dollar"
             r == Call("parseSegments", <<p, 1, <<>>>>)
         IN IF r.err # "" THEN r
            ELSE IF ~isAtEnd(p, r.pos) THEN error(p, r.pos, "unexpected token after path")
            ELSE Ok(NewPathQuery(isRoot, r.v), r.pos)

---------------------------------------------------------------------------
(* package jsonpath: Parser, NewParser, WithFunctions *)

\* WithFunctions(fns...) applied to the options: the last function of a name wins
RECURSIVE WithFunctions(_, _)
WithFunctions(functions, fns) ==
    IF fns = <<>> THEN functions
    ELSE WithFunctions(Store(functions, Head(fns).name, Head(fns)), Tail(fns))

\* NewParser(WithFunctions(fns...))
NewParser(fns) == [functions |-> WithFunctions(<<>>, fns)]

newBuiltinRegistry ==
    LET builtins == <<LengthFunc, CountFunc, MatchFunc, SearchFunc, ValueFunc>>
    IN [name \in {builtins[i].name : i \in 1..Len(builtins)} |->
           builtins[CHOOSE i \in 1..Len(builtins) : builtins[i].name = name]]

\* Parser.Parse of package jsonpath: a Path, or an error wrapped in ErrPathParse
Parser_Parse(ps, expr) ==
    LET registry == newBuiltinRegistry
        funcs == [name \in (DOMAIN registry) \cup (DOMAIN ps.functions) |->
                     IF name \in DOMAIN ps.functions THEN ps.functions[name]
                     ELSE registry[name]]
        internalParser == Call("New", <<expr, funcs>>)
        query == Call("Parse", <<internalParser.v>>)
    IN IF internalParser.err # "" THEN internalParser
       ELSE IF query.err # "" THEN query
       ELSE [err |-> "", query |-> query.v]

\* jsonpath.Parse
Path_Parse(expr) == Call("Parser_Parse", <<NewParser(<<>>), expr>>)

---------------------------------------------------------------------------
(* the canonical string of a compiled query *)

\* strconv.FormatInt(n, 10)
RECURSIVE formatDigits(_)
formatDigits(n) ==
    IF n < 10 THEN <<CodeChar(48 + n)>>
    ELSE Append(formatDigits(n \div 10), CodeChar(48 + (n % 10)))

FormatInt(n) == IF n < 0 THEN <<"-">> \o formatDigits(-n) ELSE formatDigits(n)

hexDigit(n) == IF n < 10 THEN CodeChar(48 + n) ELSE CodeChar(97 + n - 10)

\* what strconv.Quote writes for one rune
quoteRune(r) ==
    LET n == CharCode(r)
    IN CASE r = "\"" -> <<"\\", "\"">>
         [] r = "\\" -> <<"\\", "\\">>
         [] r = "BEL" -> <<"\\", "a">>
         [] r = "BS" -> <<"\\", "b">>
         [] r = "FF" -> <<"\\", "f">>
         [] r = "LF" -> <<"\\", "n">>
         [] r = "CR" -> <<"\\", "r">>
         [] r = "HT" -> <<"\\", "t">>
         [] r = "VT" -> <<"\\", "v">>
         [] OTHER -> IF n < 32 \/ n = 127
                     THEN <<"\\", "x", hexDigit(n \div 16), hexDigit(n % 16)>>
                     ELSE <<r>>

\* strconv.Quote
Quote(str) == <<"\"">> \o Flatten([i \in 1..Len(str) |-> quoteRune(str[i])]) \o <<"\"">>

SliceArgs_writeTo(a) ==
    (IF a.HasStart THEN FormatInt(a.Start) ELSE <<>>)
    \o <<":">>
    \o (IF a.HasEnd THEN FormatInt(a.End) ELSE <<>>)
    \o (IF a.HasStep THEN <<":">> \o FormatInt(a.Step) ELSE <<>>)

Selector_writeTo(s) ==
    CASE s.Kind = "Name" -> Quote(s.Name)
      [] s.Kind = "Index" -> FormatInt(s.Index)
      [] s.Kind = "Slice" -> SliceArgs_writeTo(s.Slice)
      [] s.Kind = "Wildcard" -> <<"*">>
      [] s.Kind = "Filter" -> <<"?">>

Segment_writeTo(s) ==
    (IF s.descendant THEN <<".", ".">> ELSE <<>>)
    \o <<"[">>
    \o Flatten([i \in 1..Len(s.selectors) |->
                   (IF i > 1 THEN <<",">> ELSE <<>>) \o Selector_writeTo(s.selectors[i])])
    \o <<"]">>

PathQuery_writeTo(q) ==
    (IF q.root THEN <<"$">> ELSE <<"@">>)
    \o Flatten([i \in 1..Len(q.segments) |-> Segment_writeTo(q.segments[i])])

PathQuery_String(q) == PathQuery_writeTo(q)

\* Path.String of a Path whose query is not nil
Path_String(pth) == PathQuery_String(pth.query)

---------------------------------------------------------------------------
(* Every call of one of the functions below is written Call(name, arguments), *)
(* the Go call of the function of that name with those arguments.            *)
Call(f, a) ==
    CASE f = "KeepMatching" -> KeepMatching(a[1], a[2], a[3])
      [] f = "Selector_Apply" -> Selector_Apply(a[1], a[2], a[3])
      [] f = "ast_appendSelectors" -> ast_appendSelectors(a[1], a[2], a[3])
      [] f = "ast_descendInto" -> ast_descendInto(a[1], a[2], a[3])
      [] f = "ast_appendDescendant" -> ast_appendDescendant(a[1], a[2], a[3])
      [] f = "Segment_Apply" -> Segment_Apply(a[1], a[2], a[3])
      [] f = "applySegmentsFrom" -> applySegmentsFrom(a[1], a[2], a[3], a[4])
      [] f = "PathQuery_Select" -> PathQuery_Select(a[1], a[2], a[3])
      [] f = "evalArg" -> evalArg(a[1], a[2], a[3], a[4])
      [] f = "FuncExpr_Call" -> FuncExpr_Call(a[1], a[2], a[3])
      [] f = "FuncExpr_Eval" -> FuncExpr_Eval(a[1], a[2], a[3])
      [] f = "CompValue_Value" -> CompValue_Value(a[1], a[2], a[3])
      [] f = "CompExpr_Eval" -> CompExpr_Eval(a[1], a[2], a[3])
      [] f = "BasicExpr_Eval" -> BasicExpr_Eval(a[1], a[2], a[3])
      [] f = "LogicalAnd_Eval" -> LogicalAnd_Eval(a[1], a[2], a[3])
      [] f = "LogicalOr_Eval" -> LogicalOr_Eval(a[1], a[2], a[3])
      [] f = "FilterExpr_Eval" -> FilterExpr_Eval(a[1], a[2], a[3])
      [] f = "appendSelector" -> appendSelector(a[1], a[2], a[3])
      [] f = "appendSelectors" -> appendSelectors(a[1], a[2], a[3])
      [] f = "descendInto" -> descendInto(a[1], a[2], a[3])
      [] f = "appendDescendant" -> appendDescendant(a[1], a[2], a[3])
      [] f = "applySegment" -> applySegment(a[1], a[2], a[3])
      [] f = "applySegments" -> applySegments(a[1], a[2], a[3], a[4])
      [] f = "Path_Select" -> Path_Select(a[1], a[2])
      [] f = "scanNumber" -> scanNumber(a[1], a[2])
      [] f = "scanUnicodeEscape" -> scanUnicodeEscape(a[1], a[2])
      [] f = "scanEscape" -> scanEscape(a[1], a[2], a[3])
      [] f = "scanStringLoop" -> scanStringLoop(a[1], a[2], a[3], a[4], a[5])
      [] f = "scanString" -> scanString(a[1], a[2])
      [] f = "Scan" -> Scan(a[1], a[2])
      [] f = "scanAll" -> scanAll(a[1], a[2], a[3])
      [] f = "New" -> New(a[1], a[2])
      [] f = "ParseFloat" -> ParseFloat(a[1])
      [] f = "parseBound" -> parseBound(a[1], a[2])
      [] f = "parseSlice" -> parseSlice(a[1], a[2], a[3], a[4])
      [] f = "parseIndexOrSlice" -> parseIndexOrSlice(a[1], a[2])
      [] f = "parseLiteralValue" -> parseLiteralValue(a[1], a[2])
      [] f = "parseSegments" -> parseSegments(a[1], a[2], a[3])
      [] f = "parseDescendantSegment" -> parseDescendantSegment(a[1], a[2])
      [] f = "parseBracketedSelection" -> parseBracketedSelection(a[1], a[2], a[3])
      [] f = "parseSelector" -> parseSelector(a[1], a[2])
      [] f = "parseFilterExpr" -> parseFilterExpr(a[1], a[2])
      [] f = "parseLogicalOr" -> parseLogicalOr(a[1], a[2], a[3])
      [] f = "parseLogicalAnd" -> parseLogicalAnd(a[1], a[2], a[3])
      [] f = "parseBasicExpr" -> parseBasicExpr(a[1], a[2])
      [] f = "parseTestOrComparison" -> parseTestOrComparison(a[1], a[2])
      [] f = "parseComparisonFromLiteral" -> parseComparisonFromLiteral(a[1], a[2])
      [] f = "parseFunctionArgs" -> parseFunctionArgs(a[1], a[2], a[3])
      [] f = "parseFunctionExpr" -> parseFunctionExpr(a[1], a[2])
      [] f = "parseFunctionArg" -> parseFunctionArg(a[1], a[2])
      [] f = "parseFilterQuery" -> parseFilterQuery(a[1], a[2])
      [] f = "parseCompValue" -> parseCompValue(a[1], a[2])
      [] f = "Parse" -> Parse(a[1])
      [] f = "Parser_Parse" -> Parser_Parse(a[1], a[2])
      [] f = "Path_Parse" -> Path_Parse(a[1])
      [] f = "Lexer_Scan" -> Lexer_Scan(a[1])
      [] f = "KeepMatchingLocated" -> KeepMatchingLocated(a[1], a[2], a[3], a[4])
      [] f = "appendSelectorLocated" -> appendSelectorLocated(a[1], a[2], a[3], a[4])
      [] f = "appendSelectorsLocated" -> appendSelectorsLocated(a[1], a[2], a[3], a[4])
      [] f = "descendIntoLocated" -> descendIntoLocated(a[1], a[2], a[3], a[4])
      [] f = "appendDescendantLocated" -> appendDescendantLocated(a[1], a[2], a[3], a[4])
      [] f = "applySegmentLocated" -> applySegmentLocated(a[1], a[2], a[3])
      [] f = "applySegmentsLocated" -> applySegmentsLocated(a[1], a[2], a[3], a[4])
      [] f = "Path_SelectLocated" -> Path_SelectLocated(a[1], a[2])

---------------------------------------------------------------------------
(* package jsonpath: normalized paths and located node lists *)

\* NameElement.writeNormalizedTo: what is written for one rune of the name
normalizedRune(r) ==
    CASE r = "BS" -> <<"\\", "b">>
      [] r = "FF" -> <<"\\", "f">>
      [] r = "LF" -> <<"\\", "n">>
      [] r = "CR" -> <<"\\", "r">>
      [] r = "HT" -> <<"\\", "t">>
      [] r = "'" -> <<"\\", "'">>
      [] r = "\\" -> <<"\\", "\\">>
      [] CharCode(r) \in (0..7) \cup {11, 14, 15} ->
           <<"\\", "u", "0", "0", "0", hexDigit(CharCode(r))>>
      [] OTHER -> <<r>>

\* PathElement.writeNormalizedTo
writeNormalizedTo(elem) ==
    IF elem.e = "name"
    THEN <<"[", "'">> \o Flatten([i \in 1..Len(elem.name) |-> normalizedRune(elem.name[i])])
         \o <<"'", "]">>
    ELSE <<"[">> \o FormatInt(elem.idx) \o <<"]">>

\* strings.ReplaceAll(s, old, new) for a one-character old
ReplaceAll(str, old, new) ==
    Flatten([i \in 1..Len(str) |-> IF str[i] = old THEN new ELSE <<str[i]>>])

\* writePointerTo escaping / but not ~
writePointerTo_SlashOnly(elem) ==
    IF elem.e = "name" THEN ReplaceAll(elem.name, "/", <<"~", "1">>)
    ELSE FormatInt(elem.idx)

\* PathElement.writePointerTo
writePointerTo(elem) ==
    IF elem.e = "name"
    THEN ReplaceAll(ReplaceAll(elem.name, "~", <<"~", "0">>), "/", <<"~", "1">>)
    ELSE FormatInt(elem.idx)

\* NormalizedPath.String
NormalizedPath_String(p) ==
    <<"$">> \o Flatten([i \in 1..Len(p) |-> writeNormalizedTo(p[i])])

\* NormalizedPath.Pointer
NormalizedPath_Pointer(p) ==
    Flatten([i \in 1..Len(p) |-> <<"/">> \o writePointerTo(p[i])])

\* cmp.Compare of two strings and of two ints
CompareStrings(a, b) == IF StrLess(a, b) THEN -1 ELSE IF StrLess(b, a) THEN 1 ELSE 0
CompareInts(a, b) == IF a < b THEN -1 ELSE IF a > b THEN 1 ELSE 0

\* the body of Compare's loop with a name taken as less than an index
CompareAt_NameFirst(p, q, i) ==
    LET isName1 == p[i].e = "name"
        isName2 == q[i].e = "name"
    IN IF isName1 /\ isName2 THEN CompareStrings(p[i].name, q[i].name)
       ELSE IF isName1 THEN -1
       ELSE IF isName2 THEN 1
       ELSE CompareInts(p[i].idx, q[i].idx)

\* the body of Compare's loop at position i: the result it returns, or 0 to
\* go on to the next position
CompareAt(p, q, i) ==
    LET isName1 == p[i].e = "name"
        isName2 == q[i].e = "name"
    IN IF isName1 /\ isName2 THEN CompareStrings(p[i].name, q[i].name)
       ELSE IF isName1 THEN 1
       ELSE IF isName2 THEN -1
       ELSE CompareInts(p[i].idx, q[i].idx)

RECURSIVE CompareFrom(_, _, _)
CompareFrom(p, q, i) ==
    IF i > Len(p) \/ i > Len(q) THEN CompareInts(Len(p), Len(q))
    ELSE IF CompareAt(p, q, i) # 0 THEN CompareAt(p, q, i)
    ELSE CompareFrom(p, q, i + 1)

\* NormalizedPath.Compare
NormalizedPath_Compare(p, q) == CompareFrom(p, q, 1)

\* the loop of Deduplicate from position i: seen is the set of path strings
\* met so far, uniq the nodes kept so far
RECURSIVE DeduplicateFrom(_, _, _, _)
DeduplicateFrom(l, i, seen, uniq) ==
    IF i > Len(l) THEN uniq
    ELSE LET ps == NormalizedPath_String(l[i].Path)
         IN IF ps \in seen THEN DeduplicateFrom(l, i + 1, seen, uniq)
            ELSE DeduplicateFrom(l, i + 1, seen \cup {ps}, Append(uniq, l[i]))

\* Deduplicate keeping the last node of each path instead of the first
Deduplicate_KeepLast(l) ==
    LET kept == {i \in 1..Len(l) :
                    \A j \in (i + 1)..Len(l) :
                        NormalizedPath_String(l[j].Path) # NormalizedPath_String(l[i].Path)}
        RECURSIVE Pick(_)
        Pick(i) == IF i > Len(l) THEN <<>>
                   ELSE (IF i \in kept THEN <<l[i]>> ELSE <<>>) \o Pick(i + 1)
    IN Pick(1)

\* LocatedNodeList.Deduplicate: the list returned
Deduplicate(l) == IF Len(l) <= 1 THEN l ELSE DeduplicateFrom(l, 1, {}, <<>>)

\* the insertion sort slices.SortFunc runs on a short slice: each element is
\* moved down past the elements that compare greater than it
RECURSIVE InsertInto(_, _)
InsertInto(sorted, x) ==
    IF sorted = <<>> THEN <<x>>
    ELSE IF NormalizedPath_Compare(x.Path, sorted[Len(sorted)].Path) < 0
         THEN Append(InsertInto(SubSeq(sorted, 1, Len(sorted) - 1), x), sorted[Len(sorted)])
    ELSE Append(sorted, x)

RECURSIVE InsertionSort(_, _)
InsertionSort(l, i) ==
    IF i = 0 THEN <<>> ELSE InsertInto(InsertionSort(l, i - 1), l[i])

\* the arrangements of the elements of a sequence
RECURSIVE Arrangements(_)
Arrangements(run) ==
    IF run = <<>> THEN {<<>>}
    ELSE UNION {{<<run[i]>> \o rest :
                    rest \in Arrangements([k \in 1..(Len(run) - 1) |->
                                              IF k < i THEN run[k] ELSE run[k + 1]])} :
                i \in 1..Len(run)}

\* the length of the run of nodes at the head of a sorted list whose paths
\* compare equal
RECURSIVE RunLength(_, _)
RunLength(sorted, n) ==
    IF n < Len(sorted) /\ NormalizedPath_Compare(sorted[1].Path, sorted[n + 1].Path) = 0
    THEN RunLength(sorted, n + 1)
    ELSE n

\* the lists ordered by Compare that hold the nodes of a sorted list
RECURSIVE Orderings(_)
Orderings(sorted) ==
    IF sorted = <<>> THEN {<<>>}
    ELSE LET n == RunLength(sorted, 1)
         IN {run \o rest : run \in Arrangements(SubSeq(sorted, 1, n)),
                           rest \in Orderings(SubSeq(sorted, n + 1, Len(sorted)))}

\* LocatedNodeList.Sort: the lists slices.SortFunc can leave.  Up to 12
\* elements it is the insertion sort; a longer slice goes through the
\* pattern-defeating quicksort, which does not keep the order of elements
\* that compare equal
Sort(l) ==
    IF Len(l) <= 12 THEN {InsertionSort(l, Len(l))}
    ELSE Orderings(InsertionSort(l, Len(l)))

---------------------------------------------------------------------------
(* The filter engine as a state machine: Path.Select of $[?<comparison>] on *)
(* a one-element array whose element is the candidate node.                 *)

MaxNum == 1

Absent == [t |-> "absent"]

\* the values a member of the candidate may have
MemberValues ==
    {Nil, Bool(TRUE), Bool(FALSE), Str(<<"a">>), Str(<<"b">>), Arr(<<>>),
     Arr(<<Float64(1)>>), Obj(<<>>)}
    \cup {Float64(n) : n \in 0..MaxNum}

\* the candidate nodes: objects with members a and b, each possibly absent
Member(k, v) == IF v = Absent THEN <<>> ELSE <<[k |-> <<k>>, v |-> v]>>
Candidates ==
    {Obj(Member("a", va) \o Member("b", vb)) :
        va \in MemberValues \cup {Absent},
        vb \in {Absent, Nil, Bool(FALSE), Float64(0), Str(<<"b">>)}}

\* the queries @.a, @.b, @.c and @.* as the parser builds them
RelName(k) == NewPathQuery(FALSE, <<Child(<<NameSelector(<<k>>)>>)>>)
RelWildcard == NewPathQuery(FALSE, <<Child(<<WildcardSelector>>)>>)

\* the operands of the comparisons drawn
Operands ==
    {LiteralValue(v) : v \in {JSONNull, Bool(TRUE), Bool(FALSE), Str(<<"a">>)}}
    \cup {LiteralValue(Int64(n)) : n \in 0..MaxNum}
    \cup {QueryValue(RelName(k)) : k \in {"a", "b", "c"}}
    \cup {FuncValue(NewFuncExpr(LengthFunc, <<"QueryArg">>, <<QueryArgExpr(RelName("a"))>>)),
          FuncValue(NewFuncExpr(CountFunc, <<"FilterArg">>, <<QueryArgExpr(RelName("a"))>>)),
          FuncValue(NewFuncExpr(ValueFunc, <<"FilterArg">>, <<QueryArgExpr(RelName("a"))>>)),
          FuncValue(NewFuncExpr(ValueFunc, <<"FilterArg">>, <<QueryArgExpr(RelWildcard)>>))}

NoComp == CompExpr(LiteralValue(JSONNull), "==", LiteralValue(JSONNull))

InitFilter ==
    /\ current = Nil
    /\ root = Nil
    /\ comp = NoComp
    /\ result = [done |-> FALSE, selected |-> FALSE]

\* Path.Select of the query $[?c] on the document [cand]
FilterSelect(cand, c) ==
    /\ current' = cand
    /\ root' = Arr(<<cand>>)
    /\ comp' = c
    /\ LET query == NewPathQuery(TRUE,
                        <<Child(<<FilterSelector([Or |-> <<<<c>>>>])>>)>>)
       IN result' = [done |-> TRUE, selected |-> Call("Path_Select", <<query, root'>>) # <<>>]
    /\ UNCHANGED besidesFilter

\* the caller drops the node list
FilterReturn ==
    /\ result.done
    /\ current' = Nil
    /\ root' = Nil
    /\ comp' = NoComp
    /\ result' = [done |-> FALSE, selected |-> FALSE]
    /\ UNCHANGED besidesFilter

NextFilter ==
    \/ /\ ~result.done
       /\ \E cand \in Candidates : \E l, r \in Operands : \E op \in CompOps :
              FilterSelect(cand, CompExpr(l, op, r))
    \/ FilterReturn

---------------------------------------------------------------------------
(* match and search as a state machine over the regex cache *)

MaxCache == 2

\* the subject strings and the patterns drawn; "*" and "a**" are invalid
Subjects == {<<>>, <<"a">>, <<"b">>, <<"a", "x">>, <<"x", "b">>, <<"a", "b">>}
Patterns ==
    {<<"a">>, <<"a", "|", "b">>, <<"a", "*">>, <<".">>, <<"a", "b">>, <<"*">>,
     <<"a", "*", "*">>}

InitMatch ==
    /\ reCache = <<>>
    /\ mcall = [fn |-> "none", s |-> <<>>, p |-> <<>>, ret |-> Nil]

\* MatchFunc.Call([s, p]); the cache holds at most MaxCache patterns here
MatchCall(s, p) ==
    LET r == MatchFunc_Call(reCache, <<Str(s), Str(p)>>)
    IN /\ Cardinality(DOMAIN r.cache) <= MaxCache
       /\ reCache' = r.cache
       /\ mcall' = [fn |-> "match", s |-> s, p |-> p, ret |-> r.ret]
       /\ UNCHANGED besidesMatch

\* SearchFunc.Call([s, p])
SearchCall(s, p) ==
    LET r == SearchFunc_Call(reCache, <<Str(s), Str(p)>>)
    IN /\ Cardinality(DOMAIN r.cache) <= MaxCache
       /\ reCache' = r.cache
       /\ mcall' = [fn |-> "search", s |-> s, p |-> p, ret |-> r.ret]
       /\ UNCHANGED besidesMatch

\* clearRegexCache
clearRegexCache ==
    /\ reCache # <<>>
    /\ reCache' = <<>>
    /\ UNCHANGED mcall
    /\ UNCHANGED besidesMatch

NextMatch ==
    \/ \E s \in Subjects : \E p \in Patterns : MatchCall(s, p)
    \/ \E s \in Subjects : \E p \in Patterns : SearchCall(s, p)
    \/ clearRegexCache

---------------------------------------------------------------------------
(* slices as a state machine: Path.Select of $[start:end:step] on an array *)

MaxArr == 3
MaxIdx == 4
MaxStep == 2

\* the array [0, 1, ..., n-1]
Iota(n) == [i \in 1..n |-> Float64(i - 1)]

\* the ast.SliceArgs the parser builds: an absent part is left zero
SliceArgsDrawn ==
    {[Start |-> st, End |-> en, Step |-> sp,
      HasStart |-> hst, HasEnd |-> hen, HasStep |-> hsp] :
        st \in -MaxIdx..MaxIdx, en \in -MaxIdx..MaxIdx, sp \in -MaxStep..MaxStep,
        hst \in BOOLEAN, hen \in BOOLEAN, hsp \in BOOLEAN}

NoSlice ==
    [Start |-> 0, End |-> 0, Step |-> 0,
     HasStart |-> FALSE, HasEnd |-> FALSE, HasStep |-> FALSE]

InitSlice ==
    /\ sarr = <<>>
    /\ sargs = NoSlice
    /\ sout = [done |-> FALSE, nodes |-> <<>>]

\* Path.Select of the query $[args] on the array arr
SliceSelect(arr, args) ==
    /\ (~args.HasStart => args.Start = 0)
    /\ (~args.HasEnd => args.End = 0)
    /\ (~args.HasStep => args.Step = 0)
    /\ sarr' = arr
    /\ sargs' = args
    /\ LET query == NewPathQuery(TRUE, <<Child(<<SliceSelector(args)>>)>>)
       IN sout' = [done |-> TRUE, nodes |-> Call("Path_Select", <<query, Arr(arr)>>)]
    /\ UNCHANGED besidesSlice

\* the caller drops the node list
SliceReturn ==
    /\ sout.done
    /\ sarr' = <<>>
    /\ sargs' = NoSlice
    /\ sout' = [done |-> FALSE, nodes |-> <<>>]
    /\ UNCHANGED besidesSlice

NextSlice ==
    \/ /\ ~sout.done
       /\ \E n \in 0..MaxArr : \E args \in SliceArgsDrawn : SliceSelect(Iota(n), args)
    \/ SliceReturn

---------------------------------------------------------------------------
(* parsing as a state machine: NewParser, then Parser.Parse of a source     *)
(* drawn as a shape and rendered to the characters the lexer reads.         *)

MaxFns == 2

\* functions of the caller, implementing the public jsonpath.Function
CustomValue ==
    [name |-> <<"f">>, resultType |-> "Value", impl |-> "custom1",
     iface |-> "jsonpath", arity |-> 1]
CustomLogical ==
    [name |-> <<"f">>, resultType |-> "Logical", impl |-> "custom2",
     iface |-> "jsonpath", arity |-> 1]
CustomLength ==
    [name |-> <<"l", "e", "n", "g", "t", "h">>, resultType |-> "Value",
     impl |-> "custom3", iface |-> "jsonpath", arity |-> 1]
CustomFuncs == {CustomValue, CustomLogical, CustomLength}

\* the argument lists of WithFunctions
RECURSIVE SeqsUpTo(_, _)
SeqsUpTo(S, n) ==
    IF n = 0 THEN {<<>>}
    ELSE LET shorter == SeqsUpTo(S, n - 1)
         IN shorter \cup {Append(q, x) : q \in shorter, x \in S}

\* the texts of the shapes
QueryTexts ==
    {<<"@", ".", "a">>,
     <<"@", ".", "*">>,
     <<"@">>,
     <<"$", ".", ".", "a">>,
     <<"@", "[", "0", "]">>}
LiteralTexts ==
    {<<"1">>,
     <<"'", "a", "'">>,
     <<"n", "u", "l", "l">>,
     <<"t", "r", "u", "e">>}
FuncNames ==
    {<<"l", "e", "n", "g", "t", "h">>,
     <<"c", "o", "u", "n", "t">>,
     <<"v", "a", "l", "u", "e">>,
     <<"m", "a", "t", "c", "h">>,
     <<"s", "e", "a", "r", "c", "h">>,
     <<"f">>,
     <<"g">>}
PlainSegments ==
    {<<>>,
     <<".", "a">>,
     <<".", "*">>,
     <<"[", "\"", "a", "\"", "]">>,
     <<"[", "'", "a", "'", "]">>,
     <<"[", "\"", "\\", "u", "0", "0", "0", "0", "\"", "]">>,
     <<"[", "\"", "\\", "u", "0", "0", "0", "7", "\"", "]">>,
     <<"[", "\"", "e-acute", "\"", "]">>,
     <<"[", "\"", "\\", "n", "\"", "]">>,
     <<"[", "0", "]">>,
     <<"[", "-", "1", "]">>,
     <<"[", "1", ":", "2", "]">>,
     <<"[", ":", ":", "-", "1", "]">>,
     <<"[", "0", ",", "\"", "a", "\"", "]">>,
     <<".", ".", "a">>,
     <<".", ".", "[", "*", "]">>,
     <<" ", ".", "a">>,
     <<".", "a", " ">>,
     <<"[", "9", "2", "2", "3", "3", "7", "2", "0", "3", "6", "8", "5", "4", "7", "7",
       "5", "8", "0", "8", "]">>}

\* an argument of a call: a literal, a query, or a call with plain arguments
LitArg(t) == [a |-> "lit", text |-> t]
QueryArg(t) == [a |-> "query", text |-> t]
CallArg(name, args) == [a |-> "call", fname |-> name, args |-> args]

PlainArgs ==
    {LitArg(<<"1">>), LitArg(<<"'", "a", "'">>), QueryArg(<<"@", ".", "a">>),
     QueryArg(<<"@", ".", "*">>)}
InnerCalls ==
    {CallArg(n, <<x>>) : n \in FuncNames, x \in PlainArgs}
    \cup {CallArg(n, <<QueryArg(<<"@", ".", "a">>), LitArg(<<"'", "a", "'">>)>>) :
             n \in FuncNames}
Args == PlainArgs \cup InnerCalls
SecondArgs ==
    {LitArg(<<"'", "a", "'">>), QueryArg(<<"@", ".", "a">>),
     CallArg(<<"l", "e", "n", "g", "t", "h">>, <<QueryArg(<<"@", ".", "a">>)>>)}

\* the calls drawn as a test or as an operand
Calls ==
    {CallArg(n, <<x>>) : n \in FuncNames, x \in Args}
    \cup {CallArg(n, <<x, y>>) : n \in FuncNames, x \in PlainArgs, y \in SecondArgs}
    \cup {CallArg(n, <<>>) : n \in FuncNames}

\* calls whose argument is a call
NestedCalls ==
    {CallArg(n, <<c>>) :
        n \in {<<"l", "e", "n", "g", "t", "h">>, <<"c", "o", "u", "n", "t">>,
               <<"v", "a", "l", "u", "e">>},
        c \in {CallArg(<<"l", "e", "n", "g", "t", "h">>, <<QueryArg(<<"@", ".", "a">>)>>),
               CallArg(<<"v", "a", "l", "u", "e">>, <<QueryArg(<<"@", ".", "*">>)>>),
               CallArg(<<"m", "a", "t", "c", "h">>,
                       <<QueryArg(<<"@", ".", "a">>), LitArg(<<"'", "a", "'">>)>>)}}

\* the operands of the comparisons drawn
CompOperands ==
    {LitArg(t) : t \in LiteralTexts} \cup {QueryArg(t) : t \in QueryTexts}
    \cup InnerCalls \cup NestedCalls

\* the shapes: $<segment>, $[?[!]query], $[?[!]call], $[?left op right]
Forms ==
    {[k |-> "plain", seg |-> g] : g \in PlainSegments}
    \cup {[k |-> "exist", neg |-> n, q |-> t] : n \in BOOLEAN, t \in QueryTexts}
    \cup {[k |-> "test", neg |-> n, call |-> c] : n \in BOOLEAN, c \in Calls}
    \cup {[k |-> "comp", left |-> l, op |-> o, right |-> r] :
             l \in CompOperands, o \in {"==", "<"}, r \in CompOperands}

\* the characters of a shape
RECURSIVE RenderArg(_)
RECURSIVE RenderArgs(_, _)
RenderArgs(args, i) ==
    IF i > Len(args) THEN <<>>
    ELSE (IF i > 1 THEN <<",">> ELSE <<>>) \o RenderArg(args[i]) \o RenderArgs(args, i + 1)

RenderArg(x) ==
    IF x.a = "call" THEN x.fname \o <<"(">> \o RenderArgs(x.args, 1) \o <<")">>
    ELSE x.text

RenderOp(o) == IF o = "==" THEN <<"=", "=">> ELSE <<"<">>

Render(f) ==
    CASE f.k = "plain" -> <<"$">> \o f.seg
      [] f.k = "exist" ->
           <<"$", "[", "?">> \o (IF f.neg THEN <<"!">> ELSE <<>>) \o f.q \o <<"]">>
      [] f.k = "test" ->
           <<"$", "[", "?">> \o (IF f.neg THEN <<"!">> ELSE <<>>) \o RenderArg(f.call)
           \o <<"]">>
      [] f.k = "comp" ->
           <<"$", "[", "?">> \o RenderArg(f.left) \o <<" ">> \o RenderOp(f.op) \o <<" ">>
           \o RenderArg(f.right) \o <<"]">>

NoForm == [k |-> "none"]
NoParser == [functions |-> <<>>, made |-> FALSE]
NoPath == [err |-> "none"]

InitParse ==
    /\ parser = NoParser
    /\ form = NoForm
    /\ psrc = <<>>
    /\ path = NoPath

\* p := NewParser(WithFunctions(fns...))
MakeParser(fns) ==
    /\ parser' = [functions |-> NewParser(fns).functions, made |-> TRUE]
    /\ UNCHANGED <<form, psrc, path>>
    /\ UNCHANGED besidesParse

\* p.Parse(Render(f))
ParserParse(f) ==
    /\ form' = f
    /\ psrc' = Render(f)
    /\ path' = Call("Parser_Parse", <<parser, psrc'>>)
    /\ UNCHANGED parser
    /\ UNCHANGED besidesParse

\* the caller drops the parser and the path
ParseReturn ==
    /\ path # NoPath
    /\ parser' = NoParser
    /\ form' = NoForm
    /\ psrc' = <<>>
    /\ path' = NoPath
    /\ UNCHANGED besidesParse

NextParse ==
    \/ /\ ~parser.made
       /\ \E fns \in SeqsUpTo(CustomFuncs, MaxFns) : MakeParser(fns)
    \/ /\ parser.made /\ path = NoPath
       /\ \E f \in Forms : ParserParse(f)
    \/ ParseReturn

---------------------------------------------------------------------------
(* the lexer: lexer.New(src), then Scan called again and again *)

MaxScans == 7

\* the sources drawn; bad is the offset of the first byte the lexer cannot
\* accept (-1 when there is none)
LexSource(text, bad) == [text |-> text, bad |-> bad]
LexSources ==
    {LexSource(<<>>, -1),
     LexSource(<<"$">>, -1),
     LexSource(<<"$", ".", "a">>, -1),
     LexSource(<<"$", " ", ".", ".", "a">>, -1),
     LexSource(<<"$", "[", "1", ":", "-", "2", "]">>, -1),
     LexSource(<<"$", "[", "'", "a", "'", "]">>, -1),
     LexSource(<<"$", "[", "'", "\\", "n", "'", "]">>, -1),
     LexSource(<<"$", "[", "?", "@", "=", "=", "1", ".", "5", "]">>, -1),
     LexSource(<<"$", "[", "?", "@", "&", "&", "!", "@", "]">>, -1),
     LexSource(<<"$", "=", ".", "a">>, 1),
     LexSource(<<"$", "&", " ", "a", " ", "b">>, 1),
     LexSource(<<"$", "|", "$", "$", "$", "$", "$">>, 1),
     LexSource(<<"DEL", "$", ".", "a", ".", "b">>, 0),
     LexSource(<<"$", "[", "'", "a", "\\", "x", "'", "]">>, 4),
     LexSource(<<"$", "[", "\"", "a", "b", "LF", "\"", "]">>, 5),
     LexSource(<<"$", "[", "'", "\\", "u", "0", "0", "g", "0", "'", "]">>, 3),
     LexSource(<<"$", "[", "-", "]", ".", "a", ".", "b">>, 3),
     LexSource(<<"$", "[", "1", ".", "]", ".", "a">>, 4),
     LexSource(<<"$", "[", "1", "e", "+", "]", ".", "a">>, 5),
     LexSource(<<"$", "[", "-", "a", "]">>, 3),
     LexSource(<<"-", " ", "$", " ", "$", " ", "$">>, 1)}

NoLexer == [src |-> <<>>, i |-> 0]

InitLex == lexer = NoLexer /\ toks = <<>>

\* lexer.New(src): the lexer primed on the first rune
LexerNew(src) ==
    /\ lexer' = [src |-> src, i |-> 1]
    /\ toks' = <<>>
    /\ UNCHANGED besidesLex

\* one call of Scan
LexerScan ==
    /\ lexer.i > 0
    /\ Len(toks) < MaxScans
    /\ LET sc == Call("Lexer_Scan", <<lexer>>)
       IN lexer' = sc.l /\ toks' = Append(toks, sc.tok)
    /\ UNCHANGED besidesLex

\* the lexer is dropped
LexerDrop ==
    /\ lexer.i > 0
    /\ Len(toks) > 0
    /\ lexer' = NoLexer
    /\ toks' = <<>>
    /\ UNCHANGED besidesLex

NextLex ==
    \/ /\ lexer.i = 0
       /\ \E s \in LexSources : LexerNew(s.text)
    \/ LexerScan
    \/ LexerDrop

---------------------------------------------------------------------------
(* evaluation as a state machine: jsonpath.Parse of an expression, then     *)
(* Path.Select, Path.SelectLocated and PathQuery.Select of the compiled     *)
(* query on one document.  Each `range` over a map visits its members in an *)
(* order of its own: an evaluator runs on the document as one such order    *)
(* presents it.                                                             *)

SelectTexts ==
    {<<"$">>,
     <<"$", ".", "a">>,
     <<"$", "[", "0", "]">>,
     <<"$", "[", "-", "1", "]">>,
     <<"$", ".", "a", "[", "1", "]">>,
     <<"$", "[", "'", "a", "'", "]", "[", "'", "b", "'", "]">>,
     <<"$", "[", "0", "]", ".", "a">>,
     <<"$", "[", "*", "]">>,
     <<"$", ".", "*">>,
     <<"$", ".", ".", "a">>,
     <<"$", ".", ".", "[", "*", "]">>,
     <<"$", ".", ".", "[", "0", "]">>,
     <<"$", "[", "0", ",", "0", "]">>,
     <<"$", "[", "'", "a", "'", ",", "'", "a", "'", "]">>,
     <<"$", "[", "*", ",", "0", "]">>,
     <<"$", ".", "a", "[", "*", "]">>,
     <<"$", "[", "?", "@", ".", "a", "]">>,
     <<"$", "[", "?", "@", ".", "a", " ", "=", "=", " ", "1", "]">>,
     <<"$", "[", "?", "@", "[", "0", "]", " ", "=", "=", " ", "0", "]">>,
     <<"$", "[", "?", "@", "[", "-", "1", "]", " ", "=", "=", " ", "$", "[", "0", "]", "[", "0", "]", "]">>,
     <<"$", "[", "?", "@", "[", "5", "]", "]">>,
     <<"$", "[", "?", "c", "o", "u", "n", "t", "(", "@", "[", ":", ":", "-", "2", "]", ")", " ", "=", "=", " ", "1", "]">>,
     <<"$", "[", "?", "l", "e", "n", "g", "t", "h", "(", "@", ")", " ", "=", "=", " ", "2", "]">>,
     <<"$", ".", ".", "[", "?", "@", "[", "0", "]", " ", "=", "=", " ", "0", "]">>,
     <<"$", "[", "?", "@", ".", ".", "a", "]">>,
     <<"$", "[", "?", "@", ".", "*", "]">>,
     <<"$", ".", "a", "[", "?", "@", " ", "=", "=", " ", "$", ".", "a", "[", "-", "1", "]", "]">>}

\* the slices drawn, as the parser builds them
SlicesDrawn ==
    {a \in SliceArgsDrawn :
        /\ (~a.HasStart => a.Start = 0)
        /\ (~a.HasEnd => a.End = 0)
        /\ (~a.HasStep => a.Step = 0)}

\* $[start:end:step] and $[?@[start:end:step]] for every slice drawn
SliceTexts ==
    {<<"$", "[">> \o SliceArgs_writeTo(a) \o <<"]">> : a \in SlicesDrawn}
    \cup {<<"$", "[", "?", "@", "[">> \o SliceArgs_writeTo(a) \o <<"]", "]">> :
             a \in SlicesDrawn}


\* the integers written in the positions of an index or a slice: -0, 2^53,
\* -(2^53), 2^63 and -(2^63) - 1 are to be rejected
BadNumerals ==
    {<<"-", "0">>,
     <<"9", "0", "0", "7", "1", "9", "9", "2", "5", "4", "7", "4", "0", "9", "9", "2">>,
     <<"-", "9", "0", "0", "7", "1", "9", "9", "2", "5", "4", "7", "4", "0", "9", "9", "2">>,
     <<"9", "2", "2", "3", "3", "7", "2", "0", "3", "6", "8", "5", "4", "7", "7", "5", "8",
       "0", "8">>,
     <<"-", "9", "2", "2", "3", "3", "7", "2", "0", "3", "6", "8", "5", "4", "7", "7", "5",
       "8", "0", "9">>}
GoodNumerals == {<<"0">>, <<"-", "1">>, <<"1", "0">>}

\* the selector with numeral n as index, start, end or step
InPositions(n) ==
    {n,
     n \o <<":">>,
     n \o <<":", "1", ":", "1">>,
     <<":">> \o n,
     <<"0", ":">> \o n \o <<":", "1">>,
     <<":", ":">> \o n,
     <<"0", ":", "1", ":">> \o n}

\* $[selector], $..[selector] and $[?@[selector]] of a selector
BoundQueries(sel) ==
    {<<"$", "[">> \o sel \o <<"]">>,
     <<"$", ".", ".", "[">> \o sel \o <<"]">>,
     <<"$", "[", "?", "@", "[">> \o sel \o <<"]", "]">>}

BadBoundTexts == UNION {BoundQueries(sel) : sel \in UNION {InPositions(n) : n \in BadNumerals}}
GoodBoundTexts == UNION {BoundQueries(sel) : sel \in UNION {InPositions(n) : n \in GoodNumerals}}

\* filters within filters, with $ and @ at each depth
NestedTexts ==
    {<<"$", "[", "?", "@", "[", "?", "@", " ", "=", "=", " ", "$", "[", "1", "]",
       "[", "0", "]", "]", "]">>,
     <<"$", "[", "?", "@", "[", "?", "@", " ", "=", "=", " ", "$", "[", "0", "]",
       "[", "1", "]", "]", "]">>,
     <<"$", "[", "?", "@", "[", "?", "@", "[", "?", "@", " ", "=", "=", " ", "$",
       "[", "0", "]", "[", "0", "]", "[", "0", "]", "]", "]", "]">>,
     <<"$", "[", "?", "@", "[", "?", "@", ".", "a", " ", "=", "=", " ", "$", "[",
       "0", "]", ".", "a", "]", "]">>,
     <<"$", "[", "?", "@", "[", "?", "@", " ", "=", "=", " ", "1", " ", "|", "|",
       " ", "@", " ", "=", "=", " ", "$", ".", "b", "]", "]">>,
     <<"$", ".", "a", "[", "?", "$", ".", "b", "[", "?", "@", " ", "=", "=", " ",
       "1", "]", "]">>,
     <<"$", "[", "?", "!", "@", "[", "?", "@", " ", "!", "=", " ", "$", "[", "0",
       "]", "[", "0", "]", "]", "]">>}

KeyValue(key, v) == [k |-> <<key>>, v |-> v]

SelectDocs ==
    {Iota(MaxArr)[1],
     Arr(Iota(MaxArr)),
     Arr(<<Arr(<<>>), Arr(Iota(1)), Arr(Iota(MaxArr))>>),
     Arr(<<Arr(Iota(2)), Obj(<<KeyValue("a", Float64(1))>>)>>),
     Obj(<<KeyValue("a", Arr(Iota(2))), KeyValue("b", Obj(<<KeyValue("a", Float64(1))>>))>>),
     Obj(<<KeyValue("a", Float64(1)), KeyValue("b", Float64(0))>>),
     Arr(<<Obj(<<KeyValue("a", Float64(1)), KeyValue("b", Float64(1))>>),
           Obj(<<KeyValue("b", Arr(<<>>))>>)>>),
     Arr(<<Arr(<<Arr(Iota(2)), Obj(<<KeyValue("a", Float64(0))>>)>>),
           Arr(<<Arr(<<Float64(1)>>)>>)>>)}

Reverse(s) == [i \in 1..Len(s) |-> s[Len(s) + 1 - i]]

\* the document as a `range` visiting every map backwards presents it
RECURSIVE Backwards(_)
Backwards(v) ==
    IF IsObj(v)
    THEN Obj(Reverse([i \in 1..Len(v.m) |-> [k |-> v.m[i].k, v |-> Backwards(v.m[i].v)]]))
    ELSE IF IsArr(v) THEN Arr([i \in 1..Len(v.a) |-> Backwards(v.a[i])])
    ELSE v

Ranged(v, backwards) == IF backwards THEN Backwards(v) ELSE v

NoQuery == [err |-> "none"]
NoNodes == [done |-> FALSE, list |-> <<>>]
NoDoc == [t |-> "none"]

InitEval ==
    /\ qtext = <<>>
    /\ qpath = NoQuery
    /\ qdoc = NoDoc
    /\ qnodes = NoNodes
    /\ located = NoNodes
    /\ subnodes = NoNodes

\* p, err := jsonpath.Parse(text)
EvalParse(text) ==
    /\ qtext' = text
    /\ qpath' = Call("Path_Parse", <<text>>)
    /\ UNCHANGED <<qdoc, qnodes, located, subnodes>>
    /\ UNCHANGED besidesEval

\* p.Select(d)
EvalSelect(d, backwards) ==
    /\ qdoc' = d
    /\ qnodes' = [done |-> TRUE,
                  list |-> Call("Path_Select", <<qpath.query, Ranged(d, backwards)>>)]
    /\ UNCHANGED <<qtext, qpath, located, subnodes>>
    /\ UNCHANGED besidesEval

\* p.SelectLocated(d)
EvalSelectLocated(backwards) ==
    /\ located' = [done |-> TRUE,
                   list |-> Call("Path_SelectLocated", <<qpath.query, Ranged(qdoc, backwards)>>)]
    /\ UNCHANGED <<qtext, qpath, qdoc, qnodes, subnodes>>
    /\ UNCHANGED besidesEval

\* the query evaluated as a filter's sub-query: p.query.Select(d, d)
EvalQuerySelect ==
    /\ subnodes' = [done |-> TRUE, list |-> Call("PathQuery_Select", <<qpath.query, qdoc, qdoc>>)]
    /\ UNCHANGED <<qtext, qpath, qdoc, qnodes, located>>
    /\ UNCHANGED besidesEval

\* the caller drops the path and the lists
EvalReturn ==
    /\ qpath # NoQuery
    /\ qtext' = <<>>
    /\ qpath' = NoQuery
    /\ qdoc' = NoDoc
    /\ qnodes' = NoNodes
    /\ located' = NoNodes
    /\ subnodes' = NoNodes
    /\ UNCHANGED besidesEval

NextEval ==
    \/ /\ qpath = NoQuery
       /\ \E text \in SelectTexts \cup SliceTexts \cup BadBoundTexts \cup GoodBoundTexts
                       \cup NestedTexts :
              EvalParse(text)
    \/ /\ qpath # NoQuery /\ qpath.err = "" /\ ~qnodes.done
       /\ \E d \in SelectDocs : \E backwards \in BOOLEAN : EvalSelect(d, backwards)
    \/ /\ qnodes.done /\ ~located.done
       /\ \E backwards \in BOOLEAN : EvalSelectLocated(backwards)
    \/ /\ located.done /\ ~subnodes.done
       /\ EvalQuerySelect
    \/ EvalReturn

---------------------------------------------------------------------------
(* located node lists as a state machine: a caller builds a                 *)
(* LocatedNodeList, then calls Sort and Deduplicate on it.                  *)

MaxShort == 2
MaxLong == 13
MaxOps == 2

\* the paths and the values of the nodes of the short lists
NodePaths ==
    {<<>>,
     <<IndexElement(0)>>,
     <<IndexElement(1)>>,
     <<NameElement(<<"a">>)>>,
     <<NameElement(<<"0">>)>>,
     <<NameElement(<<"a">>), IndexElement(0)>>}
NodeValues == {Float64(0), Float64(1)}
NodesDrawn == {LocatedNode(v, p) : v \in NodeValues, p \in NodePaths}

RECURSIVE ListsOf(_)
ListsOf(n) ==
    IF n = 0 THEN {<<>>}
    ELSE ListsOf(n - 1) \cup {Append(l, x) : l \in {k \in ListsOf(n - 1) : Len(k) = n - 1},
                                             x \in NodesDrawn}

\* a long list: $[0] first and last, $[MaxLong-2] down to $[1] in between
LongList(first, last) ==
    [i \in 1..MaxLong |->
        IF i = 1 THEN LocatedNode(first, <<IndexElement(0)>>)
        ELSE IF i = MaxLong THEN LocatedNode(last, <<IndexElement(0)>>)
        ELSE LocatedNode(Float64(0), <<IndexElement(MaxLong - i)>>)]

ListsDrawn == ListsOf(MaxShort) \cup {LongList(v, w) : v, w \in NodeValues}

NoList == <<[Value |-> Nil, Path |-> <<NameElement(<<>>)>>]>>

InitList ==
    /\ lbuilt = NoList
    /\ lnodes = NoList
    /\ lops = <<>>

\* list := LocatedNodeList{...}
ListBuild(l) ==
    /\ lbuilt' = l
    /\ lnodes' = l
    /\ lops' = <<>>
    /\ UNCHANGED besidesList

\* list.Sort()
ListSort(sorted) ==
    /\ lnodes' = sorted
    /\ lops' = Append(lops, "Sort")
    /\ UNCHANGED lbuilt
    /\ UNCHANGED besidesList

\* list = list.Deduplicate()
ListDeduplicate ==
    /\ lnodes' = Deduplicate(lnodes)
    /\ lops' = Append(lops, "Deduplicate")
    /\ UNCHANGED lbuilt
    /\ UNCHANGED besidesList

\* the caller drops the list
ListDrop ==
    /\ lbuilt # NoList
    /\ lbuilt' = NoList
    /\ lnodes' = NoList
    /\ lops' = <<>>
    /\ UNCHANGED besidesList

NextList ==
    \/ /\ lbuilt = NoList
       /\ \E l \in ListsDrawn : ListBuild(l)
    \/ /\ lbuilt # NoList /\ Len(lops) < MaxOps
       /\ \E sorted \in Sort(lnodes) : ListSort(sorted)
    \/ /\ lbuilt # NoList /\ Len(lops) < MaxOps
       /\ ListDeduplicate
    \/ ListDrop

---------------------------------------------------------------------------
(* normalized paths as a state machine: a caller holds two paths and calls  *)
(* Compare or Pointer on them.                                              *)

ElementsDrawn ==
    {IndexElement(0),
     IndexElement(1),
     NameElement(<<"a">>),
     NameElement(<<"0">>),
     NameElement(<<"/">>),
     NameElement(<<"~">>),
     NameElement(<<"~", "1">>)}

PathsDrawn ==
    {<<>>} \cup {<<e>> : e \in ElementsDrawn}
    \cup {<<e, f>> : e \in ElementsDrawn, f \in ElementsDrawn}

NoPair == <<>>
NoCall == [op |-> "none"]

InitNPath ==
    /\ npair = NoPair
    /\ nout = NoCall

\* p.Compare(q)
PathCompare(p, q) ==
    /\ npair' = <<p, q>>
    /\ nout' = [op |-> "Compare", cmp |-> NormalizedPath_Compare(p, q)]
    /\ UNCHANGED besidesNPath

\* p.Pointer() and q.Pointer()
PathPointer(p, q) ==
    /\ npair' = <<p, q>>
    /\ nout' = [op |-> "Pointer",
                ptrs |-> <<NormalizedPath_Pointer(p), NormalizedPath_Pointer(q)>>]
    /\ UNCHANGED besidesNPath

\* the caller drops the paths
PathDrop ==
    /\ npair # NoPair
    /\ npair' = NoPair
    /\ nout' = NoCall
    /\ UNCHANGED besidesNPath

NextNPath ==
    \/ /\ npair = NoPair
       /\ \E p \in PathsDrawn : \E q \in PathsDrawn : PathCompare(p, q)
    \/ /\ npair = NoPair
       /\ \E p \in PathsDrawn : \E q \in PathsDrawn : PathPointer(p, q)
    \/ PathDrop

---------------------------------------------------------------------------
(* concurrent compileIRegexp calls: goroutines share reCache, a sync.Map;   *)
(* Load and Store are its atomic steps, and a call runs Load, then          *)
(* compileIRegexpUncached, then Store, each as a step of its own.           *)

MaxCalls == 1

Goroutines == {1, 2, 3}

\* the patterns the goroutines ask for; "*" is invalid
CallPatterns == {<<"a">>, <<"a", "*">>, <<"*">>}

\* a *regexp.Regexp: the compiled regex and the allocation it lives in,
\* named after the call that compiled it
Instance(re, g, n) == [re |-> re, at |-> <<g, n>>]

\* reCache.Load answering with any entry of the map
Load_AnyKey(cache, key) ==
    IF cache = <<>> THEN [value |-> Nil, ok |-> FALSE]
    ELSE [value |-> cache[CHOOSE k \in DOMAIN cache : k # key \/ DOMAIN cache = {key}],
          ok |-> TRUE]

\* reCache.Load(pattern)
Load(cache, key) ==
    IF key \in DOMAIN cache THEN [value |-> cache[key], ok |-> TRUE]
    ELSE [value |-> Nil, ok |-> FALSE]

Idle == [pc |-> "idle", p |-> <<>>, re |-> Nil, ret |-> Nil, n |-> 0, after |-> {}]

InitCompile ==
    /\ reMap = <<>>
    /\ gos = [g \in Goroutines |-> Idle]
    /\ handed = [p \in CallPatterns |-> {}]
    /\ stored = <<>>
    /\ requested = {}

\* goroutine g enters compileIRegexp(p)
GoCall(g, p) ==
    /\ gos' = [gos EXCEPT ![g] = [pc |-> "load", p |-> p, re |-> Nil, ret |-> Nil,
                                  n |-> @.n + 1, after |-> handed[p]]]
    /\ requested' = requested \cup {p}
    /\ UNCHANGED <<reMap, handed, stored>>
    /\ UNCHANGED besidesCompile

\* if v, ok := reCache.Load(pattern); ok { return v }
GoLoad(g) ==
    LET l == Load(reMap, gos[g].p)
    IN /\ gos' = [gos EXCEPT ![g] =
                     IF l.ok THEN [@ EXCEPT !.pc = "return", !.ret = l.value]
                     ELSE [@ EXCEPT !.pc = "compile"]]
       /\ UNCHANGED <<reMap, handed, stored, requested>>
       /\ UNCHANGED besidesCompile

\* re, err := compileIRegexpUncached(pattern); if err != nil { return nil }
GoCompile(g) ==
    LET c == compileIRegexpUncached(gos[g].p)
    IN /\ gos' = [gos EXCEPT ![g] =
                     IF c.err THEN [@ EXCEPT !.pc = "return", !.ret = Nil]
                     ELSE [@ EXCEPT !.pc = "store", !.re = Instance(c.re, g, gos[g].n)]]
       /\ UNCHANGED <<reMap, handed, stored, requested>>
       /\ UNCHANGED besidesCompile

\* reCache.Store(pattern, re)
GoStore(g) ==
    /\ reMap' = Store(reMap, gos[g].p, gos[g].re)
    /\ stored' = Append(stored, [key |-> gos[g].p, value |-> gos[g].re])
    /\ gos' = [gos EXCEPT ![g] = [@ EXCEPT !.pc = "return", !.ret = gos[g].re]]
    /\ UNCHANGED <<handed, requested>>
    /\ UNCHANGED besidesCompile

\* the call returns to its caller
GoReturn(g) ==
    /\ gos' = [gos EXCEPT ![g] = [@ EXCEPT !.pc = "done"]]
    /\ handed' = IF gos[g].ret = Nil THEN handed
                 ELSE [handed EXCEPT ![gos[g].p] = @ \cup {gos[g].ret}]
    /\ UNCHANGED <<reMap, stored, requested>>
    /\ UNCHANGED besidesCompile

NextCompile ==
    \/ \E g \in Goroutines :
           /\ gos[g].pc \in {"idle", "done"}
           /\ gos[g].n < MaxCalls
           /\ \E p \in CallPatterns : GoCall(g, p)
    \/ \E g \in Goroutines : gos[g].pc = "load" /\ GoLoad(g)
    \/ \E g \in Goroutines : gos[g].pc = "compile" /\ GoCompile(g)
    \/ \E g \in Goroutines : gos[g].pc = "store" /\ GoStore(g)
    \/ \E g \in Goroutines : gos[g].pc = "return" /\ GoReturn(g)

---------------------------------------------------------------------------
(* concurrent evaluation: goroutines call Select or SelectLocated on one    *)
(* compiled Path and one document; a step is one iteration of the loop      *)
(* over the segments.                                                       *)

Evaluators == {1, 2}

Resting == [pc |-> "idle", located |-> FALSE, backwards |-> FALSE, i |-> 0, res |-> <<>>]

InitShared ==
    /\ spath = NoQuery
    /\ sdoc = NoDoc
    /\ evals = [g \in Evaluators |-> Resting]

\* path := jsonpath.MustParse(text), and the document the goroutines get
SharePath(text, d) ==
    /\ spath' = Call("Path_Parse", <<text>>)
    /\ sdoc' = d
    /\ UNCHANGED evals
    /\ UNCHANGED besidesShared

\* goroutine g enters p.Select(input) or p.SelectLocated(input):
\* res := []any{input}, or the root node with the empty path
GoSelect(g, loc, backwards) ==
    /\ evals' = [evals EXCEPT ![g] =
                    [pc |-> "run", located |-> loc, backwards |-> backwards, i |-> 1,
                     res |-> IF loc THEN <<LocatedNode(Ranged(sdoc, backwards), <<>>)>>
                             ELSE <<Ranged(sdoc, backwards)>>]]
    /\ UNCHANGED <<spath, sdoc>>
    /\ UNCHANGED besidesShared

\* the same iteration, leaving the document with its objects rearranged
GoSegment_WritesDocument(g) ==
    LET e == evals[g]
        input == Ranged(sdoc, e.backwards)
    IN /\ evals' = [evals EXCEPT ![g] =
                       [e EXCEPT !.i = e.i + 1,
                                 !.res = IF e.located
                                         THEN Call("applySegmentLocated",
                                                   <<spath.query.segments[e.i], e.res, input>>)
                                         ELSE Call("applySegment",
                                                   <<spath.query.segments[e.i], e.res, input>>)]]
       /\ sdoc' = Backwards(sdoc)
       /\ UNCHANGED spath
       /\ UNCHANGED besidesShared

\* one iteration: res = applySegment(&segments[i], res, input)
GoSegment(g) ==
    LET e == evals[g]
        input == Ranged(sdoc, e.backwards)
    IN /\ evals' = [evals EXCEPT ![g] =
                       [e EXCEPT !.i = e.i + 1,
                                 !.res = IF e.located
                                         THEN Call("applySegmentLocated",
                                                   <<spath.query.segments[e.i], e.res, input>>)
                                         ELSE Call("applySegment",
                                                   <<spath.query.segments[e.i], e.res, input>>)]]
       /\ UNCHANGED <<spath, sdoc>>
       /\ UNCHANGED besidesShared

\* the loop is over: return NodeList(res)
GoSelected(g) ==
    /\ evals' = [evals EXCEPT ![g] = [@ EXCEPT !.pc = "done"]]
    /\ UNCHANGED <<spath, sdoc>>
    /\ UNCHANGED besidesShared

\* the caller of goroutine g drops the list
GoForget(g) ==
    /\ evals' = [evals EXCEPT ![g] = Resting]
    /\ UNCHANGED <<spath, sdoc>>
    /\ UNCHANGED besidesShared

NextShared ==
    \/ /\ \A g \in Evaluators : evals[g].pc = "idle"
       /\ \E text \in SelectTexts : \E d \in SelectDocs : SharePath(text, d)
    \/ /\ spath # NoQuery /\ spath.err = ""
       /\ \E g \in Evaluators :
              /\ evals[g].pc = "idle"
              /\ \E loc \in BOOLEAN : \E backwards \in BOOLEAN : GoSelect(g, loc, backwards)
    \/ \E g \in Evaluators :
           /\ evals[g].pc = "run"
           /\ evals[g].i <= Len(spath.query.segments)
           /\ GoSegment(g)
    \/ \E g \in Evaluators :
           /\ evals[g].pc = "run"
           /\ evals[g].i > Len(spath.query.segments)
           /\ GoSelected(g)
    \/ \E g \in Evaluators : evals[g].pc = "done" /\ GoForget(g)

---------------------------------------------------------------------------
(* the storage of normalized paths: SelectLocated of $..[*] with every      *)
(* NormalizedPath a Go slice, a window (at, len) on a backing array of the  *)
(* heap.  How much capacity an allocation gets beyond what it needs is the  *)
(* runtime's choice.                                                        *)

MaxSpare == 1

NilPath == [at |-> 0, len |-> 0]
Free == [e |-> "free"]
SpareCells(n) == [i \in 1..n |-> Free]

\* the elements of slice sl, and cap(sl)
Elements(heap, sl) == IF sl.at = 0 THEN <<>> ELSE SubSeq(heap[sl.at], 1, sl.len)
Capacity(heap, sl) == IF sl.at = 0 THEN 0 ELSE Len(heap[sl.at])

\* slices.Clone(sl): nil for nil, else a copy in an array of its own
Clone(heap, sl, spare) ==
    IF sl.at = 0 THEN [heap |-> heap, s |-> NilPath]
    ELSE [heap |-> Append(heap, Elements(heap, sl) \o SpareCells(spare)),
          s |-> [at |-> Len(heap) + 1, len |-> sl.len]]

\* append(sl, elem): in place where the capacity allows, else in a new array
GoAppend(heap, sl, elem, spare) ==
    IF sl.len < Capacity(heap, sl)
    THEN [heap |-> [heap EXCEPT ![sl.at][sl.len + 1] = elem],
          s |-> [at |-> sl.at, len |-> sl.len + 1]]
    ELSE [heap |-> Append(heap, Elements(heap, sl) \o <<elem>> \o SpareCells(spare)),
          s |-> [at |-> Len(heap) + 1, len |-> sl.len + 1]]

\* extendPath appending to the path it was given
extendPathIn_NoClone(heap, sl, elem, spare) == GoAppend(heap, sl, elem, spare)

\* extendPath on the heap: append(slices.Clone(path), elem)
extendPathIn(heap, sl, elem, spare) ==
    LET c == Clone(heap, sl, spare)
    IN GoAppend(c.heap, c.s, elem, spare)

\* the (key, value) or (index, value) pairs of the children of node
ChildEntries(node) ==
    IF IsObj(node) THEN MapEntries(node.m)
    ELSE IF IsArr(node) THEN SliceEntries(node.a) ELSE <<>>

\* the wildcard case of appendSelectorLocated: one located node for each
\* entry from the k-th on, each with its path extended from sl
RECURSIVE appendWildcardIn(_, _, _, _, _, _, _)
appendWildcardIn(heap, out, entries, k, sl, npath, spare) ==
    IF k > Len(entries) THEN [heap |-> heap, out |-> out]
    ELSE LET x == extendPathIn(heap, sl, entries[k].elem, spare)
         IN appendWildcardIn(x.heap,
                             Append(out, [Value |-> entries[k].v, Path |-> x.s,
                                          npath |-> Append(npath, entries[k].elem)]),
                             entries, k + 1, sl, npath, spare)

Frame(node, sl, npath, k) == [node |-> node, path |-> sl, npath |-> npath, k |-> k]

NoStack == <<>>

\* the documents evaluated: a number, and arrays and objects nested up to
\* three deep
StorageDocs ==
    {Float64(0),
     Arr(<<Arr(<<Float64(0), Float64(1)>>), Arr(<<Float64(0)>>)>>),
     Arr(<<Arr(<<Arr(<<Float64(0), Float64(1)>>)>>)>>),
     Obj(<<KeyValue("a", Arr(<<Float64(0), Float64(1)>>)),
           KeyValue("b", Obj(<<KeyValue("a", Float64(1))>>))>>),
     Arr(<<Obj(<<KeyValue("a", Float64(1)), KeyValue("b", Float64(1))>>),
           Obj(<<KeyValue("b", Arr(<<>>))>>)>>)}

InitStorage ==
    /\ pheap = <<>>
    /\ pstack = NoStack
    /\ pout = <<>>
    /\ pdoc = NoDoc

\* SelectLocated(d) reaches appendDescendantLocated(out, seg, d, nil, d)
LocStart(d) ==
    /\ pdoc' = d
    /\ pheap' = <<>>
    /\ pout' = <<>>
    /\ pstack' = <<Frame(d, NilPath, <<>>, 0)>>
    /\ UNCHANGED besidesStorage

\* out = appendSelectorsLocated(out, seg.Selectors(), node, path, root)
LocSelectors(spare) ==
    LET f == Head(pstack)
        r == appendWildcardIn(pheap, pout, ChildEntries(f.node), 1, f.path, f.npath, spare)
    IN /\ pheap' = r.heap
       /\ pout' = r.out
       /\ pstack' = <<[f EXCEPT !.k = 1]>> \o Tail(pstack)
       /\ UNCHANGED pdoc
       /\ UNCHANGED besidesStorage

\* the next child: appendDescendantLocated(out, seg, child, extendPath(...), root)
LocDescend(spare) ==
    LET f == Head(pstack)
        entry == ChildEntries(f.node)[f.k]
        x == extendPathIn(pheap, f.path, entry.elem, spare)
    IN /\ pheap' = x.heap
       /\ pstack' = <<Frame(entry.v, x.s, Append(f.npath, entry.elem), 0),
                      [f EXCEPT !.k = f.k + 1]>> \o Tail(pstack)
       /\ UNCHANGED <<pout, pdoc>>
       /\ UNCHANGED besidesStorage

\* the children are done: return out
LocReturn ==
    /\ pstack' = Tail(pstack)
    /\ UNCHANGED <<pheap, pout, pdoc>>
    /\ UNCHANGED besidesStorage

\* the caller writes nodes[k].Path[i] = elem
LocWrite(k, i, elem) ==
    /\ pheap' = [pheap EXCEPT ![pout[k].Path.at][i] = elem]
    /\ pout' = [pout EXCEPT ![k].npath[i] = elem]
    /\ UNCHANGED <<pstack, pdoc>>
    /\ UNCHANGED besidesStorage

\* the caller drops the list
LocDrop ==
    /\ pdoc' = NoDoc
    /\ pheap' = <<>>
    /\ pout' = <<>>
    /\ UNCHANGED pstack
    /\ UNCHANGED besidesStorage

Written == NameElement(<<"w">>)

NextStorage ==
    \/ /\ pdoc = NoDoc
       /\ \E d \in StorageDocs : LocStart(d)
    \/ /\ pstack # NoStack /\ Head(pstack).k = 0
       /\ \E spare \in 0..MaxSpare : LocSelectors(spare)
    \/ /\ pstack # NoStack /\ Head(pstack).k >= 1
       /\ Head(pstack).k <= Len(ChildEntries(Head(pstack).node))
       /\ \E spare \in 0..MaxSpare : LocDescend(spare)
    \/ /\ pstack # NoStack /\ Head(pstack).k > Len(ChildEntries(Head(pstack).node))
       /\ LocReturn
    \/ /\ pdoc # NoDoc /\ pstack = NoStack
       /\ \A n \in 1..Len(pout) : Written \notin {pout[n].npath[j] : j \in 1..Len(pout[n].npath)}
       /\ \E k \in 1..Len(pout) : \E i \in 1..pout[k].Path.len : LocWrite(k, i, Written)
    \/ /\ pdoc # NoDoc /\ pstack = NoStack
       /\ LocDrop

---------------------------------------------------------------------------
(* the round trip of normalized paths: SelectLocated on a document, then    *)
(* for a node of the list Parse(node.Path.String()) and Select on the same  *)
(* document.                                                                *)

\* the characters of the member names drawn: a letter, the two quotes, the
\* backslash, a space, control characters, DEL and a character beyond ASCII
NameChars ==
    {"a", "'", "\"", "\\", " ", "NUL", "BEL", "BS", "HT", "LF", "VT", "FF", "CR",
     "DLE", "US", "DEL", "e-acute"}

\* the documents: an object with one member of each name, the same inside
\* an array and inside an object, and an object of two members
NameDocs ==
    {Obj(<<KeyValue(c, Float64(1))>>) : c \in NameChars}
    \cup {Arr(<<Float64(0), Obj(<<KeyValue(c, Float64(1))>>)>>) : c \in NameChars}
    \cup {Obj(<<KeyValue("a", Obj(<<KeyValue(c, Arr(<<Float64(1)>>))>>))>>) : c \in NameChars}
    \cup {Obj(<<[k |-> <<c, "'", c>>, v |-> Float64(0)], KeyValue("a", Float64(1))>>) :
             c \in NameChars}

\* $.*, $..* and $[1][*]
NameQueries ==
    {<<"$", ".", "*">>, <<"$", ".", ".", "*">>, <<"$", "[", "1", "]", "[", "*", "]">>}

NoTrips == <<>>

InitNames ==
    /\ rpath = NoQuery
    /\ rdoc = NoDoc
    /\ rnodes = NoNodes
    /\ rtrip = NoQuery
    /\ rback = NoTrips

\* path := jsonpath.MustParse(text)
NamesParse(text) ==
    /\ rpath' = Call("Path_Parse", <<text>>)
    /\ UNCHANGED <<rdoc, rnodes, rtrip, rback>>
    /\ UNCHANGED besidesNames

\* nodes := path.SelectLocated(d)
NamesSelectLocated(d) ==
    /\ rdoc' = d
    /\ rnodes' = [done |-> TRUE, list |-> Call("Path_SelectLocated", <<rpath.query, d>>)]
    /\ UNCHANGED <<rpath, rtrip, rback>>
    /\ UNCHANGED besidesNames

\* for the next node: p, err := jsonpath.Parse(node.Path.String())
NamesParseBack ==
    /\ rtrip' = Call("Path_Parse", <<NormalizedPath_String(rnodes.list[Len(rback) + 1].Path)>>)
    /\ UNCHANGED <<rpath, rdoc, rnodes, rback>>
    /\ UNCHANGED besidesNames

\* p.Select(d) when Parse gave no error
NamesSelectBack ==
    /\ rback' = Append(rback,
                       [err |-> rtrip.err,
                        nodes |-> IF rtrip.err = "" THEN Call("Path_Select", <<rtrip.query, rdoc>>)
                                  ELSE <<>>])
    /\ rtrip' = NoQuery
    /\ UNCHANGED <<rpath, rdoc, rnodes>>
    /\ UNCHANGED besidesNames

\* the caller drops the path and the list
NamesDrop ==
    /\ rpath' = NoQuery
    /\ rdoc' = NoDoc
    /\ rnodes' = NoNodes
    /\ rtrip' = NoQuery
    /\ rback' = NoTrips
    /\ UNCHANGED besidesNames

NextNames ==
    \/ /\ rpath = NoQuery
       /\ \E text \in NameQueries : NamesParse(text)
    \/ /\ rpath # NoQuery /\ ~rnodes.done
       /\ \E d \in NameDocs : NamesSelectLocated(d)
    \/ /\ rnodes.done /\ rtrip = NoQuery /\ Len(rback) < Len(rnodes.list)
       /\ NamesParseBack
    \/ /\ rtrip # NoQuery
       /\ NamesSelectBack
    \/ /\ rnodes.done /\ rtrip = NoQuery
       /\ NamesDrop

---------------------------------------------------------------------------
(* the specifications *)

Init == InitFilter /\ InitMatch /\ InitSlice /\ InitParse /\ InitLex /\ InitEval /\ InitList /\ InitNPath /\ InitCompile /\ InitShared /\ InitStorage /\ InitNames

Next == NextFilter \/ NextMatch \/ NextSlice \/ NextParse \/ NextLex \/ NextEval \/ NextList \/ NextNPath \/ NextCompile \/ NextShared \/ NextStorage \/ NextNames

Spec == Init /\ [][Next]_vars
SpecFilter == Init /\ [][NextFilter]_vars
SpecMatch == Init /\ [][NextMatch]_vars
SpecSlice == Init /\ [][NextSlice]_vars
SpecParse == Init /\ [][NextParse]_vars
SpecLex == Init /\ [][NextLex]_vars
SpecEval == Init /\ [][NextEval]_vars
SpecList == Init /\ [][NextList]_vars
SpecNPath == Init /\ [][NextNPath]_vars
SpecCompile == Init /\ [][NextCompile]_vars
SpecShared == Init /\ [][NextShared]_vars
SpecStorage == Init /\ [][NextStorage]_vars
SpecNames == Init /\ [][NextNames]_vars

---------------------------------------------------------------------------
(* properties of filter comparisons *)

\* the operand is a singular query that selects no node: Nothing
IsNothing(v) == v.c = "Query" /\ PathQuery_Select(v.Query, current, root) = <<>>

\* C2: in a filter comparison a == b, when exactly one operand is Nothing the
\* result is false whatever the other operand is, and when both operands are
\* Nothing the result is true
C2_NothingEquality ==
    (result.done /\ comp.Op = "==") =>
        /\ (IsNothing(comp.Left) # IsNothing(comp.Right)) => ~result.selected
        /\ (IsNothing(comp.Left) /\ IsNothing(comp.Right)) => result.selected

\* the operand is a call of length on something that is not a string, an
\* array or an object, or a call of value on a node list of size other than one
IsNoValueCall(v) ==
    /\ v.c = "Func"
    /\ LET arg == evalArg(v.Func, 1, current, root)
       IN \/ v.Func.fn.impl = "length" /\ arg.t \notin {"str", "arr", "obj"}
          \/ v.Func.fn.impl = "value" /\ Len(arg.a) # 1

\* the operand is a concrete JSON value: a literal, or a query selecting one node
IsConcrete(v) ==
    \/ v.c = "Literal"
    \/ v.c = "Query" /\ Len(PathQuery_Select(v.Query, current, root)) = 1

\* C3: a built-in call that produces no value results in Nothing, and its ==
\* comparison with any concrete JSON value, the literal null included, is false
C3_NoValueCallEquality ==
    (result.done /\ comp.Op = "==") =>
        /\ (IsNoValueCall(comp.Left) /\ IsConcrete(comp.Right)) =>
               /\ FuncExpr_Call(comp.Left.Func, current, root) = Nothing
               /\ ~result.selected
        /\ (IsConcrete(comp.Left) /\ IsNoValueCall(comp.Right)) =>
               /\ FuncExpr_Call(comp.Right.Func, current, root) = Nothing
               /\ ~result.selected

\* C4: a comparison with <, <=, > or >= is true only when both operands are
\* numbers or both operands are strings
C4_OrderingNeedsNumbersOrStrings ==
    (result.done /\ comp.Op \in {"<", "<=", ">", ">="} /\ result.selected) =>
        LET l == CompValue_Value(comp.Left, current, root)
            r == CompValue_Value(comp.Right, current, root)
        IN (isNumeric(l) /\ isNumeric(r)) \/ (IsStr(l) /\ IsStr(r))

---------------------------------------------------------------------------
(* properties of match *)

\* whether the whole of s is matched by the valid pattern p
FullMatch(p, s) ==
    LET re == compileIRegexpUncached(p).re
    IN \E a \in 1..Len(re.alts) : ItemsMatch(re.alts[a], 1, s, 0, Len(s))

\* C5: for every valid pattern p, match(s, p) is true if and only if the
\* entire string s is matched by p
C5_MatchIsFullMatch ==
    (mcall.fn = "match" /\ ~compileIRegexpUncached(mcall.p).err) =>
        mcall.ret = Bool(FullMatch(mcall.p, mcall.s))

---------------------------------------------------------------------------
(* properties of slices *)

\* The slice procedure: defaults by the sign of step, L added once to each
\* negative bound, clamping (for step < 0 the start into [lo, L-1]), then
\* iteration while i < end (step > 0) or i > end (step < 0).
SliceProcedure(arr, args, lo) ==
    LET L == Len(arr)
        step == IF args.HasStep THEN args.Step ELSE 1
        start0 == IF args.HasStart THEN args.Start ELSE IF step > 0 THEN 0 ELSE L - 1
        end0 == IF args.HasEnd THEN args.End ELSE IF step > 0 THEN L ELSE -L - 1
        start1 == IF start0 < 0 THEN start0 + L ELSE start0
        end1 == IF end0 < 0 THEN end0 + L ELSE end0
    IN IF step = 0 \/ L = 0 THEN <<>>
       ELSE IF step > 0 THEN SliceUp(arr, Clamp(start1, 0, L), Clamp(end1, 0, L), step)
       ELSE SliceDown(arr, Clamp(start1, lo, L - 1), Clamp(end1, -1, L - 1), step)

\* C6 as stated: Path.Select of a slice selects what the procedure selects
\* when, for step < 0, the start is clamped into [0, L-1]
C6_SliceAsStated ==
    sout.done => sout.nodes = SliceProcedure(sarr, sargs, 0)

\* C6: Path.Select of a slice selects what the procedure selects when, for
\* step < 0, the start is clamped into [-1, L-1] (RFC 9535, section 2.3.4)
C6_SliceClampedFromMinusOne ==
    sout.done => sout.nodes = SliceProcedure(sarr, sargs, -1)

\* a slice with a negative step whose start lies below -L was evaluated
C6_Witness ==
    /\ sout.done
    /\ Len(sarr) > 0
    /\ sargs.HasStep /\ sargs.Step < 0
    /\ sargs.HasStart /\ sargs.Start + Len(sarr) < 0
    /\ ~sargs.HasEnd
    /\ sout.nodes = <<>>

---------------------------------------------------------------------------
(* properties of the parser *)

\* the basic expressions and the function calls of a compiled query, to any depth
RECURSIVE BasicsOfQuery(_)
RECURSIVE BasicsOfOr(_)
RECURSIVE BasicsOfBasic(_)
RECURSIVE BasicsOfFunc(_)
BasicsOfQuery(q) ==
    UNION {BasicsOfOr(q.segments[i].selectors[j].Filter.Or) :
              <<i, j>> \in {<<i, j>> \in (1..Len(q.segments)) \X (1..4) :
                               /\ j <= Len(q.segments[i].selectors)
                               /\ q.segments[i].selectors[j].Kind = "Filter"}}

BasicsOfOr(lo) ==
    UNION {BasicsOfBasic(lo[i][j]) :
              <<i, j>> \in {<<i, j>> \in (1..Len(lo)) \X (1..4) : j <= Len(lo[i])}}

BasicsOfValue(v) ==
    CASE v.c = "Query" -> BasicsOfQuery(v.Query)
      [] v.c = "Func" -> BasicsOfFunc(v.Func)
      [] OTHER -> {}

BasicsOfBasic(b) ==
    {b} \cup
    CASE b.e \in {"Exist", "NonExist"} -> BasicsOfQuery(b.Query)
      [] b.e \in {"Paren", "NotParen"} -> BasicsOfOr(b.Expr)
      [] b.e \in {"Func", "NegFunc"} -> BasicsOfFunc(b.Func)
      [] b.e = "Comp" -> BasicsOfValue(b.Left) \cup BasicsOfValue(b.Right)

BasicsOfFunc(fe) ==
    UNION {CASE fe.args[i].a = "query" -> BasicsOfQuery(fe.args[i].q)
             [] fe.args[i].a = "func" -> BasicsOfFunc(fe.args[i].f)
             [] OTHER -> {} : i \in 1..Len(fe.args)}

RECURSIVE CallsWithin(_)
CallsWithin(fe) ==
    {fe} \cup UNION {CallsWithin(fe.args[i].f) :
                        i \in {k \in 1..Len(fe.args) : fe.args[k].a = "func"}}

\* the function calls that are an operand of the comparison b
OperandCalls(b) ==
    {v.Func : v \in {w \in {b.Left, b.Right} : w.c = "Func"}}

CallsOfQuery(q) ==
    UNION {CASE b.e \in {"Func", "NegFunc"} -> CallsWithin(b.Func)
             [] b.e = "Comp" -> UNION {CallsWithin(fe) : fe \in OperandCalls(b)}
             [] OTHER -> {} : b \in BasicsOfQuery(q)}

Accepted == path # NoPath /\ path.err = ""
Rejected == path # NoPath /\ path.err # ""

\* the documents the round trip is evaluated on
RoundTripDocs ==
    {Arr(<<>>),
     Arr(<<Obj(<<[k |-> <<"a">>, v |-> Float64(1)]>>), Str(<<"a">>)>>),
     Obj(<<[k |-> <<"a">>, v |-> Arr(<<Float64(0), Float64(1)>>)],
           [k |-> <<"NUL">>, v |-> Float64(1)]>>)}

\* C1: the canonical string of every accepted query is itself accepted by
\* Parse, and the reparsed query selects the same node list on every document
C1_CanonicalRoundTrip ==
    Accepted =>
        LET re == Path_Parse(Path_String(path))
        IN /\ re.err = ""
           /\ \A d \in RoundTripDocs : Path_Select(re.query, d) = Path_Select(path.query, d)

\* the call names a function registered with WithFunctions and passes it the
\* number of plain arguments its Validate accepts
CallsCustom(x) ==
    /\ x.a = "call"
    /\ x.fname \in DOMAIN parser.functions
    /\ Len(x.args) = parser.functions[x.fname].arity
    /\ \A i \in 1..Len(x.args) : x.args[i].a # "call"

\* C7: a call of a function registered with WithFunctions, with arguments its
\* Validate accepts, parses, and resolves to the last function registered
\* under the name
C7_CustomFunctionCallable ==
    /\ (path # NoPath /\ form.k = "test" /\ CallsCustom(form.call)
        /\ parser.functions[form.call.fname].resultType = "Logical") =>
           /\ path.err = ""
           /\ \A fe \in CallsOfQuery(path.query) : fe.fn = parser.functions[fe.name]
    /\ (path # NoPath /\ form.k = "comp" /\ CallsCustom(form.left)
        /\ parser.functions[form.left.fname].resultType = "Value"
        /\ form.right.a = "lit") =>
           /\ path.err = ""
           /\ \A fe \in CallsOfQuery(path.query) : fe.fn = parser.functions[fe.name]

\* the type of the i-th parameter of a built-in function
ParamType(fn, i) == IF fn.impl \in {"count", "value"} THEN "Nodes" ELSE "Value"

\* C8: in an accepted query, a call that is the argument of a call has the
\* result type the outer parameter accepts
C8_NestedCallTyping ==
    Accepted =>
        \A fe \in CallsOfQuery(path.query) : \A i \in 1..Len(fe.args) :
            fe.args[i].a = "func" => fe.args[i].f.fn.resultType = ParamType(fe.fn, i)

\* the function a call of the source resolves to has the result type ty
ResolvesTo(x, ty) ==
    /\ x.a = "call"
    /\ x.fname \in DOMAIN newBuiltinRegistry
    /\ x.fname \notin DOMAIN parser.functions
    /\ (newBuiltinRegistry[x.fname].resultType = "Logical") = (ty = "Logical")

\* C9: in an accepted query a call that is a test, negated or not, has result
\* type Logical and a call that is an operand of a comparison has not; a source
\* with a non-Logical call as a test or a Logical call as an operand is rejected
C9_CallTypingInFilters ==
    /\ Accepted =>
           \A b \in BasicsOfQuery(path.query) :
               /\ b.e \in {"Func", "NegFunc"} => b.Func.fn.resultType = "Logical"
               /\ b.e = "Comp" => \A fe \in OperandCalls(b) : fe.fn.resultType # "Logical"
    /\ (path # NoPath /\ form.k = "test" /\ ResolvesTo(form.call, "Value")) => Rejected
    /\ (path # NoPath /\ form.k = "comp"
        /\ (ResolvesTo(form.left, "Logical") \/ ResolvesTo(form.right, "Logical"))) =>
           Rejected

\* a negated call of a Logical function was accepted as a test
C9_Witness ==
    /\ Accepted
    /\ form.k = "test" /\ form.neg
    /\ \E b \in BasicsOfQuery(path.query) : b.e = "NegFunc"

\* the query a text of the source denotes
QueryOfText(t) == Parse(New(t, newBuiltinRegistry).v).v

IsNonSingularOperand(x) == x.a = "query" /\ ~PathQuery_IsSingular(QueryOfText(x.text))

\* C10: in an accepted query every query that is an operand of a comparison is
\* singular; a source with a non-singular query on either side is rejected
C10_SingularOperands ==
    /\ Accepted =>
           \A b \in BasicsOfQuery(path.query) :
               b.e = "Comp" =>
                   \A v \in {b.Left, b.Right} : v.c = "Query" => PathQuery_IsSingular(v.Query)
    /\ (path # NoPath /\ form.k = "comp"
        /\ (IsNonSingularOperand(form.left) \/ IsNonSingularOperand(form.right))) =>
           Rejected

\* a comparison with a singular query on each side was accepted
C10_Witness ==
    /\ Accepted
    /\ form.k = "comp" /\ form.left.a = "query" /\ form.right.a = "query"
    /\ \E b \in BasicsOfQuery(path.query) :
           b.e = "Comp" /\ b.Left.c = "Query" /\ b.Right.c = "Query"

---------------------------------------------------------------------------
(* properties of parse errors                                               *)

\* the rejection was reported at the end of the input
AtEndError == Rejected /\ path.sentinel = "ErrParseEnd"

\* C13: every parse error carries the byte offset of the token at which
\* parsing failed, except at the end of the input, where the distinct "at
\* end" error is produced; this holds for every cause of rejection
C13_ErrorsCarryOffset == Rejected => (AtEndError \/ path.at # NoOffset)

---------------------------------------------------------------------------
(* properties of the lexer *)

\* the source the lexer was made for, with the offset of its offending byte
Scanning(s) == lexer.i > 0 /\ lexer.src = s.text

InvalidAt(k) == toks[k].Kind = "Invalid"

\* C11: a rejected source yields exactly one Invalid token, and the token
\* starts at the offset of the offending byte
C11_InvalidAtOffendingByte ==
    \A s \in LexSources : Scanning(s) =>
        /\ Cardinality({k \in 1..Len(toks) : InvalidAt(k)}) <= 1
        /\ \A k \in 1..Len(toks) : InvalidAt(k) => toks[k].Start = s.bad

\* C12: once Scan has returned Invalid or EOF, every later Scan returns EOF
C12_EOFAfterEnd ==
    \A j, k \in 1..Len(toks) :
        (j < k /\ toks[j].Kind \in {"Invalid", "EOF"}) => toks[k].Kind = "EOF"

\* an Invalid token was followed by more scans although input remained unread
C12_Witness ==
    /\ Len(toks) >= 3
    /\ toks[Len(toks) - 2].Kind = "Invalid"
    /\ toks[Len(toks) - 2].End < Len(lexer.src)
    /\ toks[Len(toks)].Kind = "EOF"

---------------------------------------------------------------------------
(* properties of the evaluators *)

\* a value whatever the order in which its maps were visited: members by key
RECURSIVE Canonical(_)
Canonical(v) ==
    IF IsObj(v)
    THEN LET n == Len(v.m)
             ord == CHOOSE f \in [1..n -> 1..n] :
                        \A i, j \in 1..n : i < j => StrLess(v.m[f[i]].k, v.m[f[j]].k)
         IN Obj([i \in 1..n |-> [k |-> v.m[ord[i]].k, v |-> Canonical(v.m[ord[i]].v)]])
    ELSE IF IsArr(v) THEN Arr([i \in 1..Len(v.a) |-> Canonical(v.a[i])])
    ELSE v

\* the values of a node list and of a located node list
ValuesOf(list) == [i \in 1..Len(list) |-> Canonical(list[i])]
LocatedValues(list) == [i \in 1..Len(list) |-> Canonical(list[i].Value)]

Occurrences(x, list) == Cardinality({i \in 1..Len(list) : list[i] = x})
SameMultiset(s, t) ==
    /\ Len(s) = Len(t)
    /\ \A i \in 1..Len(s) : Occurrences(s[i], s) = Occurrences(s[i], t)

RECURSIVE HasObject(_)
HasObject(v) ==
    IF IsObj(v) THEN TRUE
    ELSE IF IsArr(v) THEN \E i \in 1..Len(v.a) : HasObject(v.a[i])
    ELSE FALSE

\* every segment is a child segment of names, indices and slices
OnlyNamesIndicesSlices(q) ==
    \A i \in 1..Len(q.segments) :
        /\ ~q.segments[i].descendant
        /\ \A k \in 1..Len(q.segments[i].selectors) :
               q.segments[i].selectors[k].Kind \in {"Name", "Index", "Slice"}

\* the evaluation of the query on the document iterates no object
IteratesNoObject == ~HasObject(qdoc) \/ OnlyNamesIndicesSlices(qpath.query)

\* C14: the values of SelectLocated(d) and the node list Select(d) are equal
\* as multisets, and element by element in the same order whenever the
\* evaluation iterates no object
C14_LocatedValuesAreSelect ==
    located.done =>
        /\ SameMultiset(LocatedValues(located.list), ValuesOf(qnodes.list))
        /\ IteratesNoObject => LocatedValues(located.list) = ValuesOf(qnodes.list)

\* a slice walked backwards selected several nodes, in an order that matters
C14_Witness ==
    /\ located.done
    /\ IteratesNoObject
    /\ Len(located.list) >= 2
    /\ located.list[1].Value # located.list[2].Value
    /\ located.list[1].Path[1].idx > located.list[2].Path[1].idx

\* the two evaluators met the members of an object in different orders
C14_WitnessObject ==
    /\ located.done
    /\ Len(located.list) >= 2
    /\ LocatedValues(located.list) # ValuesOf(qnodes.list)

\* the query under evaluation is singular
SingularEvaluated == subnodes.done /\ PathQuery_IsSingular(qpath.query)

\* C15: a query for which IsSingular is true selects zero or one node on
\* every document, under the top-level evaluators and under the evaluator
\* of filter sub-queries
C15_SingularSelectsAtMostOne ==
    SingularEvaluated =>
        /\ Len(qnodes.list) <= 1
        /\ Len(located.list) <= 1
        /\ Len(subnodes.list) <= 1

\* a singular query of two segments selected a node of a document whose
\* root has several children
C15_Witness ==
    /\ SingularEvaluated
    /\ Len(qpath.query.segments) = 2
    /\ Len(qnodes.list) = 1 /\ Len(located.list) = 1 /\ Len(subnodes.list) = 1
    /\ Len(Path_Select(NewPathQuery(TRUE, <<Child(<<WildcardSelector>>)>>), qdoc)) >= 2

\* the nodes of a document: the document and its descendants
RECURSIVE NodesOf(_)
NodesOf(v) ==
    {v} \cup (IF IsObj(v) THEN UNION {NodesOf(v.m[i].v) : i \in 1..Len(v.m)}
              ELSE IF IsArr(v) THEN UNION {NodesOf(v.a[i]) : i \in 1..Len(v.a)}
              ELSE {})

\* the sub-queries of the existence tests of the filters of a query
ExistQueries(q) == {b.Query : b \in {x \in BasicsOfQuery(q) : x.e \in {"Exist", "NonExist"}}}

\* no element of the list is the outcome of a read outside an array
PanicFree(list) == \A i \in 1..Len(list) : list[i] # Panic

\* C16: Select and SelectLocated return a list without panicking: no index
\* or slice selector, at top level or inside a filter sub-query, reads outside
\* the bounds of an array
C16_NoReadOutsideBounds ==
    subnodes.done =>
        /\ PanicFree(qnodes.list)
        /\ PanicFree([i \in 1..Len(located.list) |-> located.list[i].Value])
        /\ PanicFree(subnodes.list)
        /\ \A sub \in ExistQueries(qpath.query) : \A c \in NodesOf(qdoc) :
               PanicFree(PathQuery_Select(sub, c, qdoc))

\* a slice inside a filter, walked backwards from a start beyond the end of
\* the array, selected every element of an array of the document
C16_Witness ==
    /\ subnodes.done
    /\ \E sub \in ExistQueries(qpath.query) : \E c \in NodesOf(qdoc) :
           /\ IsArr(c) /\ Len(c.a) >= 2
           /\ Len(sub.segments) = 1
           /\ sub.segments[1].selectors[1].Kind = "Slice"
           /\ sub.segments[1].selectors[1].Slice.Start > Len(c.a)
           /\ sub.segments[1].selectors[1].Slice.Step < 0
           /\ Len(PathQuery_Select(sub, c, qdoc)) = Len(c.a)
    /\ Len(qnodes.list) >= 1

---------------------------------------------------------------------------
(* properties of located node lists *)

\* the nodes of a list that lie at the path p, in the order of the list
NodesAt(l, p) == SelectSeq(l, LAMBDA n : n.Path = p)

PathsIn(l) == {l[i].Path : i \in 1..Len(l)}

OrderedByCompare(l) ==
    \A i, j \in 1..Len(l) : i < j => NormalizedPath_Compare(l[i].Path, l[j].Path) <= 0

\* sorted is l ordered by Compare, the nodes of one path in the order of l
StablySorted(sorted, l) ==
    /\ Len(sorted) = Len(l)
    /\ OrderedByCompare(sorted)
    /\ \A p \in PathsIn(l) \cup PathsIn(sorted) : NodesAt(sorted, p) = NodesAt(l, p)

\* the first node of l at each canonical path string, in the order of l
FirstOccurrences(l) ==
    LET first == {i \in 1..Len(l) :
                     \A j \in 1..(i - 1) :
                         NormalizedPath_String(l[j].Path) # NormalizedPath_String(l[i].Path)}
        RECURSIVE Pick(_)
        Pick(i) == IF i > Len(l) THEN <<>>
                   ELSE (IF i \in first THEN <<l[i]>> ELSE <<>>) \o Pick(i + 1)
    IN Pick(1)

\* C17: Sort orders the list by Compare and keeps the relative order of the
\* nodes whose paths compare equal, so that sorting and then deduplicating
\* yields the same list as deduplicating and then sorting
C17_SortIsStable ==
    /\ lops = <<"Sort">> => StablySorted(lnodes, lbuilt)
    /\ lops = <<"Sort", "Deduplicate">> =>
           \A other \in Sort(Deduplicate(lbuilt)) : lnodes = other

\* C18: Deduplicate returns the first node of each canonical path string,
\* with its value, in the order of the list; deduplicating its result again
\* returns the same list
C18_DeduplicateKeepsFirst ==
    /\ lops = <<"Deduplicate">> => lnodes = FirstOccurrences(lbuilt)
    /\ lops = <<"Deduplicate", "Deduplicate">> => lnodes = FirstOccurrences(lbuilt)

\* a list of two nodes at one path with different values was deduplicated
\* twice, leaving the first node
C18_Witness ==
    /\ lops = <<"Deduplicate", "Deduplicate">>
    /\ Len(lbuilt) = 2
    /\ lbuilt[1].Path = lbuilt[2].Path
    /\ lbuilt[1].Value # lbuilt[2].Value
    /\ lnodes = <<lbuilt[1]>>

---------------------------------------------------------------------------
(* properties of normalized paths *)

Compared == nout.op = "Compare"
Pointed == nout.op = "Pointer"

\* the first position at which p and q hold different elements, or 0
FirstDifference(p, q) ==
    LET d == {i \in 1..Len(p) : i <= Len(q) /\ p[i] # q[i]}
    IN IF d = {} THEN 0 ELSE CHOOSE i \in d : \A j \in d : i <= j

IsProperPrefix(p, q) == Len(p) < Len(q) /\ SubSeq(q, 1, Len(p)) = p

\* C19: Compare is a total order on normalized paths: Compare(p, p) = 0,
\* Compare(p, q) = -Compare(q, p), it is transitive, it is 0 only for paths
\* of the same elements; at the first differing position an index sorts
\* before a name, and a proper prefix sorts before its extensions
C19_CompareIsTotalOrder ==
    Compared =>
        LET p == npair[1]
            q == npair[2]
            c == nout.cmp
            d == FirstDifference(p, q)
        IN /\ c \in {-1, 0, 1}
           /\ p = q => c = 0
           /\ c = 0 => p = q
           /\ c = 0 - NormalizedPath_Compare(q, p)
           /\ \A r \in PathsDrawn :
                  (c <= 0 /\ NormalizedPath_Compare(q, r) <= 0) =>
                      NormalizedPath_Compare(p, r) <= 0
           /\ (d # 0 /\ p[d].e = "index" /\ q[d].e = "name") => c = -1
           /\ IsProperPrefix(p, q) => c = -1

\* two paths that agree on their first element and differ at the second, an
\* index against a name, were compared
C19_Witness ==
    /\ Compared
    /\ FirstDifference(npair[1], npair[2]) = 2
    /\ npair[1][2].e = "index" /\ npair[2][2].e = "name"
    /\ nout.cmp = -1

\* C20 as stated: two normalized paths that differ in any element never
\* produce the same JSON Pointer string
C20_PointerInjective ==
    (Pointed /\ npair[1] # npair[2]) => nout.ptrs[1] # nout.ptrs[2]

\* a name element spelled as the decimal numeral of an index, as that index
AsIndex(elem) ==
    IF elem.e = "name" /\ \E n \in 0..MaxIdx : FormatInt(n) = elem.name
    THEN IndexElement(CHOOSE n \in 0..MaxIdx : FormatInt(n) = elem.name)
    ELSE elem
NumeralsAsIndexes(p) == [i \in 1..Len(p) |-> AsIndex(p[i])]

\* C20: two normalized paths produce the same JSON Pointer string only when
\* they hold the same elements once every name spelled as the decimal
\* numeral of an index is taken for that index; the ~0 / ~1 escaping never
\* maps two different names to the same reference token
C20_PointerInjectiveUpToNumerals ==
    Pointed =>
        /\ (nout.ptrs[1] = nout.ptrs[2]) <=>
               (NumeralsAsIndexes(npair[1]) = NumeralsAsIndexes(npair[2]))
        /\ \A i \in 1..Len(npair[1]) : \A k \in 1..Len(npair[2]) :
               (npair[1][i].e = "name" /\ npair[2][k].e = "name"
                /\ npair[1][i] # npair[2][k]) =>
                   writePointerTo(npair[1][i]) # writePointerTo(npair[2][k])

\* the pointers of the names / and ~1, whose tokens differ only by the
\* escaping of ~, were produced
C20_Witness ==
    /\ Pointed
    /\ npair[1] = <<NameElement(<<"/">>)>>
    /\ npair[2] = <<NameElement(<<"~", "1">>)>>
    /\ nout.ptrs[1] = <<"/", "~", "1">>
    /\ nout.ptrs[2] = <<"/", "~", "0", "1">>

---------------------------------------------------------------------------
(* properties of the regex cache *)

\* the pattern string the last call handed to compileIRegexp
HandedPattern == IF mcall.fn = "match" THEN MatchPattern(mcall.p) ELSE mcall.p

\* the last call handed compileIRegexp a pattern that does not compile
InvalidHanded == mcall.fn # "none" /\ compileIRegexpUncached(HandedPattern).err

\* C21: the cache holds an entry for a pattern string only if that pattern
\* compiles, and the entry is the regex compiled from that string; a call
\* with an invalid pattern returns nil and stores nothing, so that the
\* pattern is compiled again on the next call
C21_CacheHoldsValidPatterns ==
    /\ \A k \in DOMAIN reCache :
           /\ ~compileIRegexpUncached(k).err
           /\ reCache[k] = compileIRegexpUncached(k).re
    /\ InvalidHanded =>
           /\ HandedPattern \notin DOMAIN reCache
           /\ mcall.ret = Bool(FALSE)
           /\ compileIRegexp(reCache, HandedPattern) = [re |-> Nil, cache |-> reCache]

\* a call with an invalid pattern was made on a cache that holds a pattern
C21_Witness ==
    /\ InvalidHanded
    /\ reCache # <<>>
    /\ mcall.fn = "search"

---------------------------------------------------------------------------
(* properties of concurrent compileIRegexp calls *)

\* the calls that have returned
Returned == {g \in Goroutines : gos[g].pc = "done"}

\* no call is under way
AllFinished == \A g \in Goroutines : gos[g].pc \in {"idle", "done"}

\* the valid patterns the calls made so far asked for
ValidRequested == {p \in requested : ~compileIRegexpUncached(p).err}

\* the value of the last Store made under key
LastStored(key) ==
    LET at == {i \in 1..Len(stored) : stored[i].key = key}
    IN stored[CHOOSE i \in at : \A j \in at : j <= i].value

\* C22: under every interleaving a call returns nil iff its own pattern is
\* invalid and otherwise a regex compiled from its own pattern; once all
\* calls have finished the cache holds exactly one entry for each valid
\* pattern requested, the last one stored
C22_EachCallGetsItsOwnPattern ==
    /\ \A g \in Returned :
           LET c == compileIRegexpUncached(gos[g].p)
           IN /\ (gos[g].ret = Nil) <=> c.err
              /\ ~c.err => gos[g].ret.re = c.re
    /\ AllFinished =>
           /\ DOMAIN reMap = ValidRequested
           /\ \A k \in DOMAIN reMap : reMap[k] = LastStored(k)

\* all calls have finished: two compiled the same pattern, each storing
\* its own instance, one asked for another pattern and one for an invalid
\* one
C22_Witness ==
    /\ AllFinished
    /\ \E g, h \in Returned :
           /\ g # h
           /\ gos[g].p = gos[h].p
           /\ gos[g].ret # Nil
           /\ gos[g].ret # gos[h].ret
    /\ Len(stored) > Cardinality(DOMAIN reMap)

\* calls for two patterns have finished beside a call for an invalid one
C22_WitnessInvalid ==
    /\ AllFinished
    /\ Cardinality(DOMAIN reMap) = 2
    /\ \E g \in Returned : gos[g].ret = Nil

---------------------------------------------------------------------------
(* properties of concurrent evaluation *)

\* what the call of goroutine g returns when it runs alone
Alone(g) ==
    IF evals[g].located
    THEN Path_SelectLocated(spath.query, Ranged(sdoc, evals[g].backwards))
    ELSE Path_Select(spath.query, Ranged(sdoc, evals[g].backwards))

---------------------------------------------------------------------------
(* properties of the integers of indexes and slices *)

\* the queries of q: q itself and the queries of its filters, at any depth
QueriesOf(q) ==
    {q}
    \cup {b.Query : b \in {c \in BasicsOfQuery(q) : c.e \in {"Exist", "NonExist"}}}
    \cup UNION {{v.Query : v \in {w \in {b.Left, b.Right} : w.c = "Query"}} :
                   b \in {c \in BasicsOfQuery(q) : c.e = "Comp"}}
    \cup UNION {{fe.args[i].q : i \in {k \in 1..Len(fe.args) : fe.args[k].a = "query"}} :
                   fe \in CallsOfQuery(q)}

\* the integers a selector stores
BoundsOfSelector(sel) ==
    CASE sel.Kind = "Index" -> {sel.Index}
      [] sel.Kind = "Slice" -> {sel.Slice.Start, sel.Slice.End, sel.Slice.Step}
      [] OTHER -> {}

\* the integers stored in q
StoredBounds(q) ==
    UNION {BoundsOfSelector(qq.segments[i].selectors[j]) :
              <<qq, i, j>> \in {<<qq, i, j>> \in QueriesOf(q) \X (1..4) \X (1..4) :
                                   /\ i <= Len(qq.segments)
                                   /\ j <= Len(qq.segments[i].selectors)}}

\* n lies in [-(2^53-1), 2^53-1]
InIndexRange(n) == ~numeralGreater(formatDigits(IF n < 0 THEN -n ELSE n), maxIndex)

\* C24: every index and every slice start, end and step stored in a query
\* that parsed lies in [-(2^53-1), 2^53-1], and a source that writes -0 or
\* an integer out of that range as an index or in one of the three
\* positions of a slice is rejected
C24_BoundsInRange ==
    /\ (qpath # NoQuery /\ qpath.err = "") =>
           \A n \in StoredBounds(qpath.query) : n \in Int /\ InIndexRange(n)
    /\ (qpath # NoQuery /\ qtext \in BadBoundTexts) => qpath.err # ""

\* -0 as the step of a slice in a filter was rejected
C24_Witness ==
    /\ qpath # NoQuery
    /\ qtext = <<"$", "[", "?", "@", "[", "0", ":", "1", ":", "-", "0", "]", "]">>
    /\ qpath.err = "-0 is not allowed"

\* 2^53 as the end of a slice was rejected
C24_WitnessRange ==
    /\ qpath # NoQuery
    /\ qtext = <<"$", "[", ":", "9", "0", "0", "7", "1", "9", "9", "2", "5", "4", "7", "4",
                 "0", "9", "9", "2", "]">>
    /\ qpath.err = "index out of range"

\* a query that stores an index, and a slice with its three integers, parsed
C24_WitnessStored ==
    /\ qpath # NoQuery /\ qpath.err = ""
    /\ qtext \in GoodBoundTexts
    /\ Cardinality(StoredBounds(qpath.query)) = 3

---------------------------------------------------------------------------
(* properties of the storage of normalized paths *)

\* C25: the normalized paths of different result nodes never share
\* storage: extending a path for a match changes no path recorded for a
\* sibling, a parent or an earlier match, and a write through one returned
\* path changes the path of no other returned node
C25_PathsShareNoStorage ==
    /\ \A k \in 1..Len(pout) : Elements(pheap, pout[k].Path) = pout[k].npath
    /\ \A k, l \in 1..Len(pout) : k # l => pout[k].Path.at # pout[l].Path.at

\* the caller wrote through the path of a node whose parent, sibling and
\* child are in the list too, some in arrays with capacity to spare
C25_Witness ==
    /\ pdoc # NoDoc /\ pstack = NoStack
    /\ \E k, l, m, n \in 1..Len(pout) :
           /\ Written \in {pout[k].npath[j] : j \in 1..Len(pout[k].npath)}
           /\ Len(pout[k].npath) = 2
           /\ Len(pout[l].npath) = 2 /\ l # k /\ pout[l].npath[1] = pout[k].npath[1]
           /\ Len(pout[m].npath) = 1
           /\ Capacity(pheap, pout[m].Path) > pout[m].Path.len
           /\ Capacity(pheap, pout[n].Path) = pout[n].Path.len

---------------------------------------------------------------------------
(* properties of the two evaluators *)

\* the query is $[start:end:step]
IsOneSlice(q) ==
    /\ Len(q.segments) = 1
    /\ ~q.segments[1].descendant
    /\ Len(q.segments[1].selectors) = 1
    /\ q.segments[1].selectors[1].Kind = "Slice"

\* C26: Path.Select(d) and PathQuery.Select(d, d) select the same multiset
\* of nodes, and for a slice the two implementations (sliceIndices with
\* normalizeSliceBounds, and Selector.applySlice) select the same elements
\* in the same order
C26_EvaluatorsAgree ==
    subnodes.done =>
        /\ SameMultiset(ValuesOf(qnodes.list), ValuesOf(subnodes.list))
        /\ IsOneSlice(qpath.query) => ValuesOf(qnodes.list) = ValuesOf(subnodes.list)

---------------------------------------------------------------------------
(* properties of what $ and @ denote *)

\* the children of a node, in the order of one iteration over it
ChildValues(node) ==
    IF IsObj(node) THEN MapValues(node.m)
    ELSE IF IsArr(node) THEN node.a ELSE <<>>

\* RFC 9535 for queries of child segments with name, index, wildcard and
\* filter selectors: the nodes a query selects when $ is the document doc
\* and @ is the node at, and whether a filter holds for the candidate at
RECURSIVE DenotedQuery(_, _, _, _), DenotedSelector(_, _, _), DenotedOr(_, _, _),
          DenotedBasic(_, _, _)
DenotedValue(v, at, doc) ==
    IF v.c = "Literal" THEN v.Val
    ELSE LET nodes == DenotedQuery(v.Query.segments, 1,
                                   <<IF v.Query.root THEN doc ELSE at>>, doc)
         IN IF Len(nodes) = 1 THEN nodes[1] ELSE Nothing

DenotedBasic(b, at, doc) ==
    CASE b.e = "Exist" ->
           DenotedQuery(b.Query.segments, 1, <<IF b.Query.root THEN doc ELSE at>>, doc) # <<>>
      [] b.e = "NonExist" ->
           DenotedQuery(b.Query.segments, 1, <<IF b.Query.root THEN doc ELSE at>>, doc) = <<>>
      [] b.e = "Paren" -> DenotedOr(b.Expr, at, doc)
      [] b.e = "NotParen" -> ~DenotedOr(b.Expr, at, doc)
      [] b.e = "Comp" ->
           CompExpr_Eval(CompExpr(LiteralValue(DenotedValue(b.Left, at, doc)), b.Op,
                                  LiteralValue(DenotedValue(b.Right, at, doc))), at, doc)

DenotedOr(lo, at, doc) ==
    \E i \in 1..Len(lo) : \A j \in 1..Len(lo[i]) : DenotedBasic(lo[i][j], at, doc)

DenotedSelector(sel, node, doc) ==
    CASE sel.Kind = "Name" ->
           IF IsObj(node) /\ HasKey(node.m, sel.Name) THEN <<Get(node.m, sel.Name)>> ELSE <<>>
      [] sel.Kind = "Index" ->
           IF IsArr(node) /\ sel.Index >= 0 /\ sel.Index < Len(node.a)
           THEN <<node.a[sel.Index + 1]>>
           ELSE IF IsArr(node) /\ sel.Index < 0 /\ Len(node.a) + sel.Index >= 0
           THEN <<node.a[Len(node.a) + sel.Index + 1]>>
           ELSE <<>>
      [] sel.Kind = "Wildcard" -> ChildValues(node)
      [] sel.Kind = "Filter" ->
           LET c == ChildValues(node)
           IN Flatten([i \in 1..Len(c) |->
                          IF DenotedOr(sel.Filter.Or, c[i], doc) THEN <<c[i]>> ELSE <<>>])

DenotedQuery(segments, i, nodes, doc) ==
    IF i > Len(segments) THEN nodes
    ELSE DenotedQuery(segments, i + 1,
                      Flatten([n \in 1..Len(nodes) |->
                                  Flatten([k \in 1..Len(segments[i].selectors) |->
                                              DenotedSelector(segments[i].selectors[k],
                                                              nodes[n], doc)])]),
                      doc)

\* what the query selects on the document by RFC 9535
Denoted == DenotedQuery(qpath.query.segments, 1, <<qdoc>>, qdoc)

---------------------------------------------------------------------------
(* properties of the round trip of normalized paths *)

\* C28: for every located node (v, p) of SelectLocated on d, Parse accepts
\* p.String() and the parsed query selects on d exactly the one node v,
\* whatever the member names: control characters U+0000 to U+001F, single
\* quotes and backslashes included
C28_PathStringRoundTrips ==
    \A k \in 1..Len(rback) :
        /\ rback[k].err = ""
        /\ rback[k].nodes = <<rnodes.list[k].Value>>

---------------------------------------------------------------------------
(* properties of the progress of the lexer *)

Halting == {"EOF", "Invalid"}

\* the End of the token before the k-th, 0 before the first
PrevEnd(k) == IF k = 1 THEN 0 ELSE toks[k - 1].End

\* the tokens parser.New collects from the source of the lexer
Collected == scanAll(lexer.src, 1, <<>>)

\* C29: every token Scan returns, EOF and INVALID aside, satisfies
\* prevEnd <= Start < End <= len(source), so that scanning a source of n
\* bytes reaches EOF or INVALID within n + 1 calls and the token loop of
\* the parser ends
C29_ScanAdvances ==
    lexer.i > 0 =>
        /\ \A k \in 1..Len(toks) :
               toks[k].Kind \notin Halting =>
                   /\ PrevEnd(k) <= toks[k].Start
                   /\ toks[k].Start < toks[k].End
                   /\ toks[k].End <= Len(lexer.src)
        /\ Len(toks) >= Len(lexer.src) + 1 =>
               \E k \in 1..(Len(lexer.src) + 1) : toks[k].Kind \in Halting
        /\ Len(Collected) <= Len(lexer.src) + 1
        /\ Collected[Len(Collected)].Kind \in Halting
        /\ \A k \in 1..(Len(Collected) - 1) : Collected[k].Kind \notin Halting

\* $.a was scanned to its end in four calls, one for each byte and one for
\* EOF
C29_Witness ==
    /\ lexer.src = <<"$", ".", "a">>
    /\ Len(toks) = 4
    /\ toks[4].Kind = "EOF"
    /\ \A k \in 1..3 : toks[k].Kind \notin Halting /\ toks[k].End = k

\* a token that follows blank space and one of several bytes were scanned
C29_WitnessBlank ==
    /\ lexer.i > 0
    /\ \E k \in 2..Len(toks) :
           /\ toks[k].Kind \notin Halting
           /\ PrevEnd(k) < toks[k].Start
    /\ \E k \in 1..Len(toks) :
           /\ toks[k].Kind \notin Halting
           /\ toks[k].End > toks[k].Start + 1

=============================================================================
